---------------------------- MODULE Spec2Model ----------------------------
(***************************************************************************)
(* A model of data-cleaner: the cleaning pipeline cleanData of             *)
(* src/src/index.js and the grouper of src/unnamed/part_001 (grouper.js).  *)
(*                                                                         *)
(* JavaScript values are modelled as tagged records; a string is the       *)
(* sequence of its characters (one-character TLA+ strings), so that        *)
(* trimming, case conversion, comparison, joining and JSON serialization   *)
(* are computed character by character as the runtime computes them.       *)
(* A JavaScript object is the sequence of its (key, value) properties in   *)
(* insertion order, which is the order Object.entries and JSON.stringify   *)
(* enumerate them in.                                                      *)
(***************************************************************************)
EXTENDS Integers, Sequences, FiniteSets, TLC

(***************************************************************************)
(* Bounds of the model.                                                    *)
(***************************************************************************)
\* longest input array (Table) drawn in Init
MaxRows == 3
\* most stages enabled together in a drawn options object (the scenario
\* option sets of the specification and the README are drawn in addition)
MaxEnabled == 2
\* most rules added to a validator
MaxRules == 2

(***************************************************************************)
(* Characters and strings.                                                 *)
(***************************************************************************)
LowerLetters ==
  << "a","b","c","d","e","f","g","h","i","j","k","l","m",
     "n","o","p","q","r","s","t","u","v","w","x","y","z" >>

UpperLetters ==
  << "A","B","C","D","E","F","G","H","I","J","K","L","M",
     "N","O","P","Q","R","S","T","U","V","W","X","Y","Z" >>

Digits == << "0","1","2","3","4","5","6","7","8","9" >>

\* the characters of the model in increasing UTF-16 code unit order, the
\* order the relational operators compare strings by
CharOrder ==
  << " ", "\"", "+", ",", "-" >> \o Digits \o << ":" >> \o UpperLetters
    \o << "\\", "_" >> \o LowerLetters \o << "{", "|", "}" >>

IndexOf(seq, c) == CHOOSE i \in 1..Len(seq) : seq[i] = c

InSeq(seq, c) == \E i \in 1..Len(seq) : seq[i] = c

Code(c) == IndexOf(CharOrder, c)

\* white space as String.prototype.trim and the regular expression class \s see it
IsSpace(c) == c = " "

\* the regular expression class \w
IsWord(c) == InSeq(LowerLetters, c) \/ InSeq(UpperLetters, c) \/ InSeq(Digits, c) \/ c = "_"

UpperChar(c) == IF InSeq(LowerLetters, c) THEN UpperLetters[IndexOf(LowerLetters, c)] ELSE c

LowerChar(c) == IF InSeq(UpperLetters, c) THEN LowerLetters[IndexOf(UpperLetters, c)] ELSE c

MinOf(S) == CHOOSE x \in S : \A y \in S : x <= y

MaxOf(S) == CHOOSE x \in S : \A y \in S : y <= x

RECURSIVE Join(_, _)
\* Array.prototype.join on an array of strings
Join(parts, sep) ==
  IF Len(parts) = 0 THEN << >>
  ELSE IF Len(parts) = 1 THEN parts[1]
  ELSE parts[1] \o sep \o Join(Tail(parts), sep)

\* String.prototype.trim
Trim(s) ==
  LET keep == { i \in 1..Len(s) : ~IsSpace(s[i]) }
  IN  IF keep = {} THEN << >> ELSE SubSeq(s, MinOf(keep), MaxOf(keep))

\* String.prototype.toUpperCase
ToUpperCase(s) == [ i \in 1..Len(s) |-> UpperChar(s[i]) ]

\* String.prototype.toLowerCase
ToLowerCase(s) == [ i \in 1..Len(s) |-> LowerChar(s[i]) ]

\* position i of s lies inside a match of /\w\S*/g: a word character at or
\* before i with no white space from it up to i
InMatch(s, i) ==
  \E j \in 1..i : IsWord(s[j]) /\ \A k \in j..i : ~IsSpace(s[k])

\* a title case that keeps the first character of a match in the lowered rest:
\* txt.charAt(0).toUpperCase() + txt.toLowerCase()
TitleCaseRepeating(s) ==
  Join([ i \in 1..Len(s) |->
           IF InMatch(s, i)
             THEN IF i > 1 /\ InMatch(s, i - 1) THEN << LowerChar(s[i]) >>
                  ELSE << UpperChar(s[i]), LowerChar(s[i]) >>
             ELSE << s[i] >> ], << >>)

\* value.replace(/\w\S*/g, txt => txt.charAt(0).toUpperCase() + txt.substr(1).toLowerCase())
TitleCase(s) ==
  [ i \in 1..Len(s) |->
      IF InMatch(s, i)
        THEN IF i > 1 /\ InMatch(s, i - 1) THEN LowerChar(s[i]) ELSE UpperChar(s[i])
        ELSE s[i] ]

\* s.charAt(0).toUpperCase() + s.slice(1).toLowerCase()
Capitalize(s) ==
  [ i \in 1..Len(s) |-> IF i = 1 THEN UpperChar(s[i]) ELSE LowerChar(s[i]) ]

\* a < b on two strings: code unit by code unit, a proper prefix is smaller
StrLess(a, b) ==
  \E i \in 1..(Len(b)) :
     /\ i <= Len(a) + 1
     /\ \A k \in 1..(i - 1) : a[k] = b[k]
     /\ (i = Len(a) + 1 \/ Code(a[i]) < Code(b[i]))

\* String.prototype.startsWith
StartsWith(s, p) == Len(p) <= Len(s) /\ SubSeq(s, 1, Len(p)) = p

\* String.prototype.endsWith
EndsWith(s, p) == Len(p) <= Len(s) /\ SubSeq(s, Len(s) - Len(p) + 1, Len(s)) = p

\* String.prototype.includes
Includes(s, p) ==
  \E i \in 0..(Len(s) - Len(p)) : SubSeq(s, i + 1, i + Len(p)) = p

RECURSIVE NatToStr(_)
\* the decimal digits of a natural number
NatToStr(n) ==
  IF n < 10 THEN << Digits[n + 1] >>
  ELSE NatToStr(n \div 10) \o << Digits[(n % 10) + 1] >>

\* Number.prototype.toString for an integer
IntToStr(n) == IF n < 0 THEN << "-" >> \o NatToStr(0 - n) ELSE NatToStr(n)

RECURSIVE DigitsToNat(_)
\* the value of a non-empty sequence of decimal digits
DigitsToNat(s) ==
  IF Len(s) = 0 THEN 0
  ELSE 10 * DigitsToNat(SubSeq(s, 1, Len(s) - 1)) + (IndexOf(Digits, s[Len(s)]) - 1)

AllDigits(s) == Len(s) > 0 /\ \A i \in 1..Len(s) : InSeq(Digits, s[i])


(***************************************************************************)
(* JavaScript values: strings, integers, NaN, null and undefined.          *)
(***************************************************************************)
Str(s) == [ t |-> "str", s |-> s, n |-> 0 ]

Num(n) == [ t |-> "num", s |-> << >>, n |-> n ]

NaN == [ t |-> "nan", s |-> << >>, n |-> 0 ]

Null == [ t |-> "null", s |-> << >>, n |-> 0 ]

Undefined == [ t |-> "undef", s |-> << >>, n |-> 0 ]

\* the object Object.prototype
ObjectPrototype == [ t |-> "obj", s |-> << >>, n |-> 0 ]

IsStr(v) == v.t = "str"

\* String(v)
ToStr(v) ==
  CASE v.t = "str"   -> v.s
    [] v.t = "num"   -> IntToStr(v.n)
    [] v.t = "nan"   -> << "N", "a", "N" >>
    [] v.t = "null"  -> << "n", "u", "l", "l" >>
    [] v.t = "undef" -> << "u", "n", "d", "e", "f", "i", "n", "e", "d" >>
    [] v.t = "obj"   -> << "[","o","b","j","e","c","t"," ","O","b","j","e","c","t","]" >>

\* Number(s) for a string: white space is trimmed, the empty string is 0, an
\* optionally signed run of decimal digits is its value and anything else is
\* NaN (the strings of the model hold no fraction, exponent, radix prefix or
\* "Infinity")
StrToNumber(s) ==
  LET body == Trim(s)
      unsigned == IF Len(body) > 0 /\ body[1] \in { "+", "-" } THEN Tail(body) ELSE body
  IN  IF Len(body) = 0 THEN Num(0)
      ELSE IF ~AllDigits(unsigned) THEN NaN
      ELSE IF body[1] = "-" THEN Num(0 - DigitsToNat(unsigned))
      ELSE Num(DigitsToNat(unsigned))

\* Number(v)
ToNumber(v) ==
  CASE v.t = "str"   -> StrToNumber(v.s)
    [] v.t = "num"   -> v
    [] v.t = "nan"   -> NaN
    [] v.t = "null"  -> Num(0)
    [] v.t = "undef" -> NaN
    [] v.t = "obj"   -> NaN

\* a < b: two strings compare as strings, anything else as numbers, and a
\* comparison with NaN is false
Less(a, b) ==
  IF IsStr(a) /\ IsStr(b) THEN StrLess(a.s, b.s)
  ELSE LET x == ToNumber(a)
           y == ToNumber(b)
       IN  x.t = "num" /\ y.t = "num" /\ x.n < y.n

\* a <= b
LessEq(a, b) ==
  IF IsStr(a) /\ IsStr(b) THEN a.s = b.s \/ StrLess(a.s, b.s)
  ELSE LET x == ToNumber(a)
           y == ToNumber(b)
       IN  x.t = "num" /\ y.t = "num" /\ x.n <= y.n

\* a == b (loose equality)
LooseEq(a, b) ==
  IF a.t = b.t THEN a.t # "nan" /\ a = b
  ELSE IF a.t \in { "null", "undef" } \/ b.t \in { "null", "undef" }
    THEN a.t \in { "null", "undef" } /\ b.t \in { "null", "undef" }
  ELSE LET x == ToNumber(a)
           y == ToNumber(b)
       IN  x.t = "num" /\ y.t = "num" /\ x.n = y.n

(***************************************************************************)
(* Objects: sequences of properties [k, v] in insertion order.             *)
(***************************************************************************)
Prop(k, v) == [ k |-> k, v |-> v ]

\* key in item (own properties; the keys of the model name nothing that
\* Object.prototype defines)
HasKey(item, key) == \E i \in 1..Len(item) : item[i].k = key

\* item[key]
Get(item, key) ==
  IF HasKey(item, key)
    THEN item[CHOOSE i \in 1..Len(item) : item[i].k = key].v
    ELSE Undefined

\* item[key] = v: an existing property keeps its place, a new one goes last
Put(item, key, v) ==
  IF HasKey(item, key)
    THEN [ i \in 1..Len(item) |-> IF item[i].k = key THEN Prop(key, v) ELSE item[i] ]
    ELSE Append(item, Prop(key, v))

\* JSON.stringify of a string
JSONQuote(s) ==
  LET esc(c) == IF c \in { "\"", "\\" } THEN << "\\", c >> ELSE << c >>
  IN  << "\"" >> \o Join([ i \in 1..Len(s) |-> esc(s[i]) ], << >>) \o << "\"" >>

\* JSON.stringify of a property value
JSONValue(v) ==
  CASE v.t = "str"   -> JSONQuote(v.s)
    [] v.t = "num"   -> IntToStr(v.n)
    [] OTHER         -> << "n", "u", "l", "l" >>

\* JSON.stringify(item) for an object: properties in insertion order, those
\* whose value is undefined left out
JSONStringify(item) ==
  LET own == SelectSeq(item, LAMBDA p : p.v.t # "undef")
  IN  << "{" >>
        \o Join([ i \in 1..Len(own) |->
                    JSONQuote(own[i].k) \o << ":" >> \o JSONValue(own[i].v) ],
                << "," >>)
        \o << "}" >>

(***************************************************************************)
(* String splitting and the string constants the code compares against.    *)
(***************************************************************************)
\* the first index at which sep occurs in s, 0 when it does not occur
FirstIndex(s, sep) ==
  LET hits == { i \in 1..(Len(s) - Len(sep) + 1) : SubSeq(s, i, i + Len(sep) - 1) = sep }
  IN  IF hits = {} THEN 0 ELSE MinOf(hits)

RECURSIVE Split(_, _)
\* String.prototype.split with a string separator; an empty separator splits
\* into the single characters
Split(s, sep) ==
  IF Len(sep) = 0 THEN [ i \in 1..Len(s) |-> << s[i] >> ]
  ELSE LET at == FirstIndex(s, sep)
       IN  IF at = 0 THEN << s >>
           ELSE << SubSeq(s, 1, at - 1) >> \o Split(SubSeq(s, at + Len(sep), Len(s)), sep)

sUppercase == << "u","p","p","e","r","c","a","s","e" >>

sLowercase == << "l","o","w","e","r","c","a","s","e" >>

sCapitalize == << "c","a","p","i","t","a","l","i","z","e" >>

sTrim == << "t","r","i","m" >>

sNumber == << "n","u","m","b","e","r" >>

sString == << "s","t","r","i","n","g" >>

sReplaceColon == << "r","e","p","l","a","c","e",":" >>

sMultiplyColon == << "m","u","l","t","i","p","l","y",":" >>

sDivideColon == << "d","i","v","i","d","e",":" >>

(***************************************************************************)
(* The options object of cleanData.  An option that may be absent is a     *)
(* sequence: empty when absent, else holding the value.                    *)
(***************************************************************************)
NoOptions ==
  [ removeEmpty |-> FALSE, deduplicate |-> FALSE, key |-> << >>, trim |-> FALSE,
    case |-> << >>, columns |-> << >>, filter |-> << >>, transform |-> << >>,
    sort |-> << >>, limit |-> << >> ]

\* the truth value "if (options.<stage>)" tests
Truthy(options, stage) ==
  CASE stage = "removeEmpty" -> options.removeEmpty
    [] stage = "deduplicate" -> options.deduplicate
    [] stage = "trim"        -> options.trim
    [] stage = "case"        -> options.case # << >>
    [] stage = "columns"     -> options.columns # << >>
    [] stage = "filter"      -> options.filter # << >>
    [] stage = "transform"   -> options.transform # << >>
    [] stage = "sort"        -> options.sort # << >>
    [] stage = "limit"       -> options.limit # << >> /\ options.limit[1] # 0

(***************************************************************************)
(* The stages of cleanData, each as the function of the array it is given. *)
(***************************************************************************)
\* the elements of T at the indices idx, in that order
Pick(T, idx) == [ j \in 1..Len(idx) |-> T[idx[j]] ]

Indices(T) == [ i \in 1..Len(T) |-> i ]

\* the remove-empty filter callback:
\* Object.values(item).some(v => v !== null && v !== undefined && v !== '')
NotEmpty(item) ==
  \E i \in 1..Len(item) : item[i].v \notin { Null, Undefined, Str(<< >>) }

\* the indices cleaned.filter keeps in the remove-empty stage
RemoveEmptyKeeps(T) == SelectSeq(Indices(T), LAMBDA i : NotEmpty(T[i]))

\* options.key ? item[options.key] : JSON.stringify(item)
DedupKey(item, options) ==
  IF options.key # << >> /\ options.key[1] # << >>
    THEN Get(item, options.key[1])
    ELSE Str(JSONStringify(item))

RECURSIVE DedupScanForgetting(_, _, _, _)
\* a scan that forgets a key once it has dropped a duplicate of it
DedupScanForgetting(T, i, seen, options) ==
  IF i > Len(T) THEN << >>
  ELSE LET key == DedupKey(T[i], options)
       IN  IF key \in seen
             THEN DedupScanForgetting(T, i + 1, seen \ { key }, options)
             ELSE << i >> \o DedupScanForgetting(T, i + 1, seen \cup { key }, options)

RECURSIVE DedupScan(_, _, _, _)
\* the deduplicate filter callback over the items from index i on, seen being
\* the Set so far: the indices it keeps
DedupScan(T, i, seen, options) ==
  IF i > Len(T) THEN << >>
  ELSE LET key == DedupKey(T[i], options)
       IN  IF key \in seen
             THEN DedupScan(T, i + 1, seen, options)
             ELSE << i >> \o DedupScan(T, i + 1, seen \cup { key }, options)

\* a deduplication that keeps the last occurrence of each key
DeduplicateKeepsLast(T, options) ==
  SelectSeq(Indices(T), LAMBDA i :
    \A j \in (i + 1)..Len(T) : DedupKey(T[j], options) # DedupKey(T[i], options))

\* the indices cleaned.filter keeps in the deduplicate stage
DeduplicateKeeps(T, options) == DedupScan(T, 1, { }, options)

\* a trim stage that also drops the items left with no value
TrimItemsCompacting(T) ==
  SelectSeq([ r \in 1..Len(T) |->
               [ i \in 1..Len(T[r]) |->
                   IF IsStr(T[r][i].v) THEN Prop(T[r][i].k, Str(Trim(T[r][i].v.s)))
                   ELSE T[r][i] ] ],
            NotEmpty)

\* every string-valued property trimmed, into a new object
TrimItems(T) ==
  [ r \in 1..Len(T) |->
      [ i \in 1..Len(T[r]) |->
          IF IsStr(T[r][i].v) THEN Prop(T[r][i].k, Str(Trim(T[r][i].v.s))) ELSE T[r][i] ] ]

\* the switch with the upper and lower conversions exchanged
ConvertCaseSwapped(s, case) ==
  CASE case = "upper" -> ToLowerCase(s)
    [] case = "lower" -> ToUpperCase(s)
    [] case = "title" -> TitleCase(s)

\* the switch on options.case for one string
ConvertCase(s, case) ==
  CASE case = "upper" -> ToUpperCase(s)
    [] case = "lower" -> ToLowerCase(s)
    [] case = "title" -> TitleCase(s)

\* every string-valued property converted, into a new object; a string
\* property is not copied at all when options.case names no known conversion
CaseItems(T, case) ==
  [ r \in 1..Len(T) |->
      LET item == T[r]
          kept == IF case \in { "upper", "lower", "title" } THEN item
                  ELSE SelectSeq(item, LAMBDA p : ~IsStr(p.v))
      IN  [ i \in 1..Len(kept) |->
              IF IsStr(kept[i].v)
                THEN Prop(kept[i].k, Str(ConvertCase(kept[i].v.s, case)))
                ELSE kept[i] ] ]

RECURSIVE ProjectItem(_, _)
\* for (const col of options.columns) if (col in item) result[col] = item[col]
ProjectItem(item, columns) ==
  IF columns = << >> THEN << >>
  ELSE LET front == ProjectItem(item, SubSeq(columns, 1, Len(columns) - 1))
           col == columns[Len(columns)]
       IN  IF HasKey(item, col) THEN Put(front, col, Get(item, col)) ELSE front

SelectColumns(T, columns) == [ r \in 1..Len(T) |-> ProjectItem(T[r], columns) ]

\* new RegExp(value).test(s) for the patterns of the model: literal
\* characters, with | separating alternatives
RegexTest(pattern, s) ==
  LET alts == Split(pattern, << "|" >>)
  IN  \E a \in 1..Len(alts) : Includes(s, alts[a])

\* the switch on operator in the filter callback
FilterKeeps(item, f) ==
  LET itemValue == Get(item, f.column)
      value == f.value
  IN  CASE f.operator = "eq"         -> LooseEq(itemValue, value)
        [] f.operator = "neq"        -> ~LooseEq(itemValue, value)
        [] f.operator = "gt"         -> Less(value, itemValue)
        [] f.operator = "lt"         -> Less(itemValue, value)
        [] f.operator = "gte"        -> LessEq(value, itemValue)
        [] f.operator = "lte"        -> LessEq(itemValue, value)
        [] f.operator = "contains"   -> Includes(ToStr(itemValue), ToStr(value))
        [] f.operator = "startsWith" -> StartsWith(ToStr(itemValue), ToStr(value))
        [] f.operator = "endsWith"   -> EndsWith(ToStr(itemValue), ToStr(value))
        [] f.operator = "regex"      -> RegexTest(ToStr(value), ToStr(itemValue))
        [] OTHER                     -> TRUE

\* the indices cleaned.filter keeps in the filter stage
FilterKeepsAt(T, f) == SelectSeq(Indices(T), LAMBDA i : FilterKeeps(T[i], f))

\* Number(a) * Number(b)
Times(a, b) ==
  LET x == ToNumber(a)
      y == ToNumber(b)
  IN  IF x.t = "num" /\ y.t = "num" THEN Num(x.n * y.n) ELSE NaN

Abs(n) == IF n < 0 THEN 0 - n ELSE n

\* Number(a) / Number(b), for the quotients the model draws: NaN operands,
\* and integers with a non-zero divisor that divides exactly
Quotient(a, b) ==
  LET x == ToNumber(a)
      y == ToNumber(b)
  IN  CASE x.t = "nan" \/ y.t = "nan" -> NaN
        [] x.t = "num" /\ y.t = "num" /\ y.n # 0 /\ Abs(x.n) % Abs(y.n) = 0 ->
             IF (x.n < 0) = (y.n < 0)
               THEN Num(Abs(x.n) \div Abs(y.n))
               ELSE Num(0 - (Abs(x.n) \div Abs(y.n)))

\* the value the transform switch assigns to item[column]
TransformValue(v, transformFn) ==
  CASE transformFn = sUppercase  -> Str(ToUpperCase(ToStr(v)))
    [] transformFn = sLowercase  -> Str(ToLowerCase(ToStr(v)))
    [] transformFn = sCapitalize -> Str(Capitalize(ToStr(v)))
    [] transformFn = sTrim       -> Str(Trim(ToStr(v)))
    [] transformFn = sNumber     -> ToNumber(v)
    [] transformFn = sString     -> Str(ToStr(v))
    [] OTHER ->
         IF StartsWith(transformFn, sReplaceColon)
           THEN LET args == Split(Split(transformFn, << ":" >>)[2], << "," >>)
                    from == args[1]
                    \* join(undefined) joins with ","
                    to == IF Len(args) >= 2 THEN args[2] ELSE << "," >>
                IN  Str(Join(Split(ToStr(v), from), to))
         ELSE IF StartsWith(transformFn, sMultiplyColon)
           THEN Times(v, Str(Split(transformFn, << ":" >>)[2]))
         ELSE IF StartsWith(transformFn, sDivideColon)
           THEN Quotient(v, Str(Split(transformFn, << ":" >>)[2]))
         ELSE v

\* the transform map callback: item[column] is rewritten when column is a
\* non-empty name and item[column] is not undefined
TransformItem(item, tr) ==
  IF tr.column # << >> /\ Get(item, tr.column) # Undefined
    THEN Put(item, tr.column, TransformValue(Get(item, tr.column), tr.transform))
    ELSE item

TransformItems(T, tr) == [ r \in 1..Len(T) |-> TransformItem(T[r], tr) ]

\* the sort comparator
Compare(a, b, s) ==
  LET aVal == Get(a, s.column)
      bVal == Get(b, s.column)
  IN  IF Less(aVal, bVal) THEN (IF s.order = "asc" THEN -1 ELSE 1)
      ELSE IF Less(bVal, aVal) THEN (IF s.order = "asc" THEN 1 ELSE -1)
      ELSE 0

\* seq with e inserted so that it is at (1-based) position at + 1
InsertAt(seq, at, e) == SubSeq(seq, 1, at) \o << e >> \o SubSeq(seq, at + 1, Len(seq))

RECURSIVE BinarySearch(_, _, _, _, _, _)
\* the binary search of a binary insertion sort for the place of pivot in
\* the sorted indices run[left+1 .. right] (0-based bounds as the engine's)
BinarySearch(T, s, run, pivot, left, right) ==
  IF left >= right THEN left
  ELSE LET mid == left + ((right - left) \div 2)
       IN  IF Compare(T[pivot], T[run[mid + 1]], s) < 0
             THEN BinarySearch(T, s, run, pivot, left, mid)
             ELSE BinarySearch(T, s, run, pivot, mid + 1, right)

RECURSIVE BinaryInsertFrom(_, _, _, _)
BinaryInsertFrom(T, s, run, start) ==
  IF start > Len(T) THEN run
  ELSE BinaryInsertFrom(T, s,
         InsertAt(run, BinarySearch(T, s, run, start, 0, Len(run)), start), start + 1)

\* Array.prototype.sort as an engine that sorts short arrays by run detection
\* and binary insertion does it: the permutation of the indices of T
MergeSortOrder(T, s) ==
  IF Len(T) < 2 THEN Indices(T)
  ELSE LET descending == Compare(T[2], T[1], s) < 0
           extends(k) == IF descending THEN Compare(T[k], T[k - 1], s) < 0
                         ELSE Compare(T[k], T[k - 1], s) >= 0
           runLength == MaxOf({ r \in 2..Len(T) : \A k \in 3..r : extends(k) })
           run == IF descending THEN [ i \in 1..runLength |-> runLength + 1 - i ]
                  ELSE [ i \in 1..runLength |-> i ]
       IN  BinaryInsertFrom(T, s, run, runLength + 1)

RECURSIVE LinearInsertFrom(_, _, _, _)
LinearInsertFrom(T, s, run, start) ==
  IF start > Len(T) THEN run
  ELSE LET at == MinOf({ j \in 0..Len(run) :
                          \A x \in (j + 1)..Len(run) : Compare(T[run[x]], T[start], s) > 0 })
       IN  LinearInsertFrom(T, s, InsertAt(run, at, start), start + 1)

\* Array.prototype.sort as an engine that sorts short arrays by straight
\* insertion does it
InsertionSortOrder(T, s) == LinearInsertFrom(T, s, << >>, 1)

\* the orders cleaned.sort(comparator) can leave the array in.  The
\* comparator answers 0 whenever neither value is less than the other, so it
\* need not be a consistent ordering (an absent field equals everything);
\* the order is then the engine's, and both engines' orders are outcomes.
SortOrders(T, s) == { MergeSortOrder(T, s), InsertionSortOrder(T, s) }

\* cleaned.slice(0, n) for n >= 0
Slice(T, n) == SubSeq(T, 1, IF n < Len(T) THEN n ELSE Len(T))

(***************************************************************************)
(* The inputs drawn: records, arrays of them, and options objects.         *)
(***************************************************************************)
kName == << "n","a","m","e" >>

kAge == << "a","g","e" >>

sAlice == << "a","l","i","c","e" >>

sEighteen == << "1","8" >>

rBob == << Prop(kName, Str(<< " ","B","o","b"," " >>)), Prop(kAge, Str(<< "1","7" >>)) >>

rAlice == << Prop(kName, Str(sAlice)), Prop(kAge, Str(<< "3","0" >>)) >>

rBlank == << Prop(kName, Str(<< >>)), Prop(kAge, Null) >>

rNoAge == << Prop(kName, Str(sAlice)) >>

rNine == << Prop(kAge, Num(9)), Prop(kName, Str(<< " "," ","-","b","o"," ","b","O","B" >>)) >>

rNoName == << Prop(kAge, Str(<< "9" >>)) >>

\* the records of the arrays the pipeline is run on with several stages
Records == { rBob, rAlice, rBlank, rNoAge }

\* the records of the arrays a single stage is run on
StageRecords == Records \cup { rNine, rNoName }

RECURSIVE SeqsUpTo(_, _)
\* the sequences over S of length at most n
SeqsUpTo(S, n) ==
  IF n = 0 THEN { << >> }
  ELSE LET shorter == SeqsUpTo(S, n - 1)
       IN  shorter \cup { Append(q, x) : q \in { r \in shorter : Len(r) = n - 1 }, x \in S }

Tables == SeqsUpTo(Records, MaxRows)

StageTables == SeqsUpTo(StageRecords, MaxRows)

Stages ==
  << "removeEmpty", "deduplicate", "trim", "case", "columns", "filter",
     "transform", "sort", "limit" >>

Filter(column, operator, value) == [ column |-> column, operator |-> operator, value |-> value ]

Transform(column, transformFn) == [ column |-> column, transform |-> transformFn ]

Sort(column, order) == [ column |-> column, order |-> order ]

\* the stages whose option the caller gave (a limit of 0 is given)
Given(o) ==
  { st \in 1..Len(Stages) :
      IF Stages[st] = "limit" THEN o.limit # << >> ELSE Truthy(o, Stages[st]) }

\* trim, deduplicate, case upper and filter age gt "18" together
ScenarioOptions ==
  [ NoOptions EXCEPT !.trim = TRUE, !.deduplicate = TRUE, !.case = << "upper" >>,
                     !.filter = << Filter(kAge, "gt", Str(sEighteen)) >> ]

\* options objects with up to MaxEnabled stages given, and the scenario
DrawnOptions ==
  { o \in [ removeEmpty : BOOLEAN, deduplicate : BOOLEAN, key : { << >>, << kName >> },
            trim : BOOLEAN, case : { << >>, << "upper" >> },
            columns : { << >>, << << kName >> >> },
            filter : { << >>, << Filter(kAge, "gt", Str(sEighteen)) >> },
            transform : { << >>, << Transform(kName, sUppercase) >> },
            sort : { << >>, << Sort(kAge, "desc") >> },
            limit : { << >>, << 0 >>, << 1 >> } ] :
        (o.key # << >> => o.deduplicate) /\ Cardinality(Given(o)) <= MaxEnabled }
    \cup { ScenarioOptions }

Operators ==
  { "eq", "neq", "gt", "lt", "gte", "lte", "contains", "startsWith", "endsWith", "regex" }

\* options objects with one stage given, each stage with its variants
StageOptions ==
  { [ NoOptions EXCEPT !.removeEmpty = TRUE ], [ NoOptions EXCEPT !.trim = TRUE ] }
    \cup { [ NoOptions EXCEPT !.deduplicate = TRUE, !.key = k ] :
             k \in { << >>, << kName >>, << kAge >> } }
    \cup { [ NoOptions EXCEPT !.case = << c >> ] : c \in { "upper", "lower", "title" } }
    \cup { [ NoOptions EXCEPT !.columns = << c >> ] :
             c \in { << >>, << kName >>, << kAge, kName >> } }
    \cup { [ NoOptions EXCEPT !.filter = << Filter(kAge, op, Str(sEighteen)) >> ] :
             op \in Operators }
    \cup { [ NoOptions EXCEPT !.filter = << Filter(kName, op, Str(<< "e" >>)) >> ] :
             op \in Operators }
    \cup { [ NoOptions EXCEPT !.filter = << Filter(kName, op, Null) >> ] :
             op \in { "eq", "neq" } }
    \cup { [ NoOptions EXCEPT !.transform = << Transform(kName, fn) >> ] :
             fn \in { sUppercase, sCapitalize, sTrim } }
    \cup { [ NoOptions EXCEPT !.transform = << Transform(kAge, fn) >> ] :
             fn \in { sNumber, sString } }
    \cup { [ NoOptions EXCEPT !.sort = << Sort(c, d) >> ] :
             c \in { kName, kAge }, d \in { "asc", "desc" } }
    \cup { [ NoOptions EXCEPT !.limit = << n >> ] : n \in 0..(MaxRows + 1) }

(***************************************************************************)
(* cleanData as a state machine: one step per stage, in program order.     *)
(*   input      the array the caller passed, as it was at the call         *)
(*   data       the same array object as the caller sees it now            *)
(*   options    the options object                                         *)
(*   cleaned    the local variable cleaned                                 *)
(*   origin     for each element of cleaned, the index in data of the      *)
(*              object it is (0 for an object a stage created)             *)
(*   sameArray  cleaned is the very array object data                      *)
(*   before     cleaned as it was before the last stage                    *)
(*   pc         the stage about to run, "done" once cleanData returned     *)
(*                                                                         *)
(* groupByMultiple as a state machine: one step per item of the loop.      *)
(*   gData      the array passed as data                                   *)
(*   gFields    the array passed as groupByFields                          *)
(*   groups     the object groups: its properties [k, v] in the order      *)
(*              Object.entries enumerates them, v the array of the group,  *)
(*              each element the index in gData of the object it is        *)
(*   gPos       the index in gData of the item the loop is at              *)
(*   gPc        "loop", then "returned" or "threw"                         *)
(*                                                                         *)
(* groupAndAggregate as a state machine: the call of groupByMultiple, then *)
(* one step per entry of groups.                                           *)
(*   aggregations  the object passed as aggregations: properties [k, v],   *)
(*              k the field and v the aggregation type                     *)
(*   result     the array result built so far                              *)
(*   aPos       the index of the entry of groups the loop is at            *)
(*   aPc        "idle", "call", then "returned" or "threw"                 *)
(*                                                                         *)
(* pivotTable, applied in one step.                                        *)
(*   pvData     the array passed as data                                   *)
(*   aggFunction  the string passed as aggFunction                         *)
(*   pivot      the object returned: rows, columns and data                *)
(*   pvPc       "idle", "call", then "returned"                            *)
(*                                                                         *)
(* calculatePercentile, applied in one step.                               *)
(*   qValues    the array passed as values                                 *)
(*   percentile the number passed as percentile                            *)
(*   quantile   the number returned                                        *)
(*   qPc        "idle", "call", then "returned"                            *)
(*                                                                         *)
(* The action of the clean command: the expressions are parsed, cleanData  *)
(* runs, the output file is written.                                       *)
(*   argv       the option values of the command line: each << >> when the *)
(*              option is not given, else << its text >>                   *)
(*   written    << >>, then << the array written to the output file >>     *)
(*   cPc        "idle", "parse", "clean", then "written"                   *)
(*                                                                         *)
(* A DataValidator: rules are added, then getErrors runs in one step.      *)
(*   rules      the Map this.rules: entries [k, v] in insertion order, k   *)
(*              the field name and v the array of its rules                *)
(*   dataArray  the array passed to getErrors                              *)
(*   errors     the array getErrors returned                               *)
(*   vPc        "idle", "rules", then "returned"                           *)
(***************************************************************************)
VARIABLES input, data, options, cleaned, origin, sameArray, before, pc,
          gData, gFields, groups, gPos, gPc,
          aggregations, result, aPos, aPc,
          pvData, aggFunction, pivot, pvPc,
          qValues, percentile, quantile, qPc,
          argv, written, cPc,
          rules, dataArray, errors, vPc

cvars == << input, data, options, cleaned, origin, sameArray, before, pc >>

gvars == << gData, gFields, groups, gPos, gPc >>

avars == << aggregations, result, aPos, aPc >>

\* the variables of the other operations
pvvars == << pvData, aggFunction, pivot, pvPc >>

qvars == << qValues, percentile, quantile, qPc >>

cmdvars == << argv, written, cPc >>

vvars == << rules, dataArray, errors, vPc >>

xvars == << avars, pvvars, qvars, cmdvars, vvars >>

\* the variables the validator leaves alone
exceptValidator == << cvars, gvars, avars, pvvars, qvars, cmdvars >>

\* the variables a step of groupAndAggregate after the grouping leaves alone
exceptAggregate == << cvars, gvars, pvvars, qvars, cmdvars, vvars >>

\* the variables pivotTable leaves alone
exceptPivot == << cvars, gvars, avars, qvars, cmdvars, vvars >>

\* the variables calculatePercentile leaves alone
exceptPercentile == << cvars, gvars, avars, pvvars, cmdvars, vvars >>

vars == << cvars, gvars, xvars >>

\* no call of groupAndAggregate is under way
AggregateIdle ==
  /\ aggregations = << >>
  /\ result = << >>
  /\ aPos = 1
  /\ aPc = "idle"

\* no call of pivotTable is under way
PivotIdle ==
  /\ pvData = << >>
  /\ aggFunction = "sum"
  /\ pivot = [ rows |-> << >>, columns |-> << >>, data |-> << >> ]
  /\ pvPc = "idle"

\* no call of calculatePercentile is under way
PercentileIdle ==
  /\ qValues = << >>
  /\ percentile = 0
  /\ quantile = Num(0)
  /\ qPc = "idle"

NoArgs == [ filter |-> << >>, transform |-> << >>, columns |-> << >> ]

\* no clean command is under way
CommandIdle ==
  /\ argv = NoArgs
  /\ written = << >>
  /\ cPc = "idle"

\* no validator is in use
ValidatorIdle ==
  /\ rules = << >>
  /\ dataArray = << >>
  /\ errors = << >>
  /\ vPc = "idle"

OthersIdle ==
  AggregateIdle /\ PivotIdle /\ PercentileIdle /\ CommandIdle /\ ValidatorIdle

\* no call of groupByMultiple is under way
GroupIdle ==
  /\ gData = << >>
  /\ gFields = << >>
  /\ groups = << >>
  /\ gPos = 1
  /\ gPc = "returned"

\* function cleanData(data, options) { let cleaned = data;
Init ==
  /\ input \in Tables
  /\ options \in DrawnOptions
  /\ data = input
  /\ cleaned = input
  /\ origin = Indices(input)
  /\ sameArray = TRUE
  /\ before = input
  /\ pc = "removeEmpty"
  /\ GroupIdle
  /\ OthersIdle

\* a stage whose option is not truthy leaves cleaned as it is
Skip(next) ==
  /\ before' = cleaned
  /\ pc' = next
  /\ UNCHANGED << input, data, options, cleaned, origin, sameArray, gvars, xvars >>

\* a stage that is cleaned = cleaned.filter(...), keeping the indices keeps
FilterTo(keeps, next) ==
  /\ cleaned' = Pick(cleaned, keeps)
  /\ origin' = Pick(origin, keeps)
  /\ sameArray' = FALSE
  /\ before' = cleaned
  /\ pc' = next
  /\ UNCHANGED << input, data, options, gvars, xvars >>

\* a stage that is cleaned = cleaned.map(...) building a new object per item
MapTo(items, next) ==
  /\ cleaned' = items
  /\ origin' = [ i \in 1..Len(items) |-> 0 ]
  /\ sameArray' = FALSE
  /\ before' = cleaned
  /\ pc' = next
  /\ UNCHANGED << input, data, options, gvars, xvars >>

StageRemoveEmpty ==
  /\ pc = "removeEmpty"
  /\ IF Truthy(options, "removeEmpty")
       THEN FilterTo(RemoveEmptyKeeps(cleaned), "deduplicate")
       ELSE Skip("deduplicate")

StageDeduplicate ==
  /\ pc = "deduplicate"
  /\ IF Truthy(options, "deduplicate")
       THEN FilterTo(DeduplicateKeeps(cleaned, options), "trim")
       ELSE Skip("trim")

StageTrim ==
  /\ pc = "trim"
  /\ IF Truthy(options, "trim")
       THEN MapTo(TrimItems(cleaned), "case")
       ELSE Skip("case")

StageCase ==
  /\ pc = "case"
  /\ IF Truthy(options, "case")
       THEN MapTo(CaseItems(cleaned, options.case[1]), "columns")
       ELSE Skip("columns")

StageColumns ==
  /\ pc = "columns"
  /\ IF Truthy(options, "columns")
       THEN MapTo(SelectColumns(cleaned, options.columns[1]), "filter")
       ELSE Skip("filter")

StageFilter ==
  /\ pc = "filter"
  /\ IF Truthy(options, "filter")
       THEN FilterTo(FilterKeepsAt(cleaned, options.filter[1]), "transform")
       ELSE Skip("transform")

\* map returns a new array of the same objects, each rewritten in place: an
\* object that is an element of data changes in data too
StageTransform ==
  /\ pc = "transform"
  /\ IF Truthy(options, "transform")
       THEN /\ cleaned' = TransformItems(cleaned, options.transform[1])
            /\ data' = [ d \in 1..Len(data) |->
                           IF \E i \in 1..Len(origin) : origin[i] = d
                             THEN TransformItem(data[d], options.transform[1])
                             ELSE data[d] ]
            /\ sameArray' = FALSE
            /\ before' = cleaned
            /\ pc' = "sort"
            /\ UNCHANGED << input, options, origin, gvars, xvars >>
       ELSE Skip("sort")

\* sort orders the array in place and returns it: when cleaned is still the
\* array data, data is reordered
StageSort ==
  /\ pc = "sort"
  /\ IF Truthy(options, "sort")
       THEN \E order \in SortOrders(cleaned, options.sort[1]) :
              /\ cleaned' = Pick(cleaned, order)
              /\ data' = IF sameArray THEN Pick(data, order) ELSE data
              /\ origin' = IF sameArray THEN origin ELSE Pick(origin, order)
              /\ before' = cleaned
              /\ pc' = "limit"
              /\ UNCHANGED << input, options, sameArray, gvars, xvars >>
       ELSE Skip("limit")

\* slice returns a new array of the same objects; return cleaned
StageLimit ==
  /\ pc = "limit"
  /\ IF Truthy(options, "limit")
       THEN /\ cleaned' = Slice(cleaned, options.limit[1])
            /\ origin' = Slice(origin, options.limit[1])
            /\ sameArray' = FALSE
            /\ before' = cleaned
            /\ pc' = "done"
            /\ UNCHANGED << input, data, options, gvars, xvars >>
       ELSE Skip("done")

Next ==
  \/ StageRemoveEmpty
  \/ StageDeduplicate
  \/ StageTrim
  \/ StageCase
  \/ StageColumns
  \/ StageFilter
  \/ StageTransform
  \/ StageSort
  \/ StageLimit

Spec == Init /\ [][Next]_vars

\* cleanData called with one stage given
InitStage ==
  /\ input \in StageTables
  /\ options \in StageOptions
  /\ data = input
  /\ cleaned = input
  /\ origin = Indices(input)
  /\ sameArray = TRUE
  /\ before = input
  /\ pc = "removeEmpty"
  /\ GroupIdle
  /\ OthersIdle

SpecStage == InitStage /\ [][Next]_vars

(***************************************************************************)
(* The grouper (grouper.js).                                               *)
(***************************************************************************)
sNullMarker == << "_","_","n","u","l","l","_","_" >>

sConstructor == << "c","o","n","s","t","r","u","c","t","o","r" >>

sValueOf == << "v","a","l","u","e","O","f" >>

sProto == << "_","_","p","r","o","t","o","_","_" >>

\* names that every object created by {} answers through Object.prototype
\* (those the strings of the model can spell)
InheritedKeys == { sConstructor, sValueOf, sProto }

\* the callback of groupByFields.map: one part of the key
KeyPart(item, field) ==
  LET value == Get(item, field)
  IN  IF value # Undefined /\ value # Null THEN ToStr(value) ELSE sNullMarker

\* keyParts.join('|')
GroupKey(item, fields) ==
  Join([ f \in 1..Len(fields) |-> KeyPart(item, fields[f]) ], << "|" >>)

\* a property name that is an array index: objects enumerate these first, in
\* increasing numeric order, before the other names in insertion order
IsArrayIndex(k) == AllDigits(k) /\ (Len(k) = 1 \/ k[1] # "0")

\* groups[key] = [] for a name groups does not have yet
AddProperty(obj, key) ==
  IF IsArrayIndex(key)
    THEN LET smaller == { i \in 1..Len(obj) :
                            IsArrayIndex(obj[i].k) /\ DigitsToNat(obj[i].k) < DigitsToNat(key) }
         IN  InsertAt(obj, Cardinality(smaller), Prop(key, << >>))
    ELSE Append(obj, Prop(key, << >>))

\* if (groups[key] === undefined) groups[key] = []; groups[key].push(item),
\* for a key groups does not inherit; ref is the item pushed
PushItem(obj, key, ref) ==
  LET with == IF HasKey(obj, key) THEN obj ELSE AddProperty(obj, key)
  IN  [ i \in 1..Len(with) |->
          IF with[i].k = key THEN Prop(key, Append(with[i].v, ref)) ELSE with[i] ]

kCat == << "c","a","t" >>

kV == << "v" >>

gA10 == << Prop(kCat, Str(<< "a" >>)), Prop(kV, Str(<< "1","0" >>)) >>

gA20 == << Prop(kCat, Str(<< "a" >>)), Prop(kV, Str(<< "2","0" >>)) >>

gB5 == << Prop(kCat, Str(<< "b" >>)), Prop(kV, Str(<< "5" >>)) >>

gNull == << Prop(kCat, Null), Prop(kV, Str(<< "5" >>)) >>

gBlank == << Prop(kCat, Str(<< >>)), Prop(kV, Str(<< "5" >>)) >>

gNoCat == << Prop(kV, Num(7)) >>

gMarker == << Prop(kCat, Str(sNullMarker)), Prop(kV, Str(<< "5" >>)) >>

gCtor == << Prop(kCat, Str(sConstructor)), Prop(kV, Str(<< "1","0" >>)) >>

gAB_C == << Prop(kCat, Str(<< "a","|","b" >>)), Prop(kV, Str(<< "c" >>)) >>

gA_BC == << Prop(kCat, Str(<< "a" >>)), Prop(kV, Str(<< "b","|","c" >>)) >>

GroupRecords == { gA10, gA20, gB5, gNull, gBlank, gNoCat, gMarker, gCtor, gAB_C, gA_BC }

GroupTables == SeqsUpTo(GroupRecords, MaxRows)

GroupFieldLists == { << kCat >>, << kV >>, << kCat, kV >> }

\* function groupByMultiple(data, groupByFields) { const groups = {};
InitGroup ==
  /\ gData \in GroupTables
  /\ gFields \in GroupFieldLists
  /\ groups = << >>
  /\ gPos = 1
  /\ gPc = "loop"
  /\ input = << >>
  /\ data = << >>
  /\ options = NoOptions
  /\ cleaned = << >>
  /\ origin = << >>
  /\ sameArray = TRUE
  /\ before = << >>
  /\ pc = "done"
  /\ OthersIdle

\* one turn of the loop for a key groups does not inherit
GroupItem ==
  /\ gPc = "loop"
  /\ gPos <= Len(gData)
  /\ GroupKey(gData[gPos], gFields) \notin InheritedKeys
  /\ groups' = PushItem(groups, GroupKey(gData[gPos], gFields), gPos)
  /\ gPos' = gPos + 1
  /\ UNCHANGED << gData, gFields, gPc, cvars, xvars >>

\* one turn of the loop for a key groups inherits: groups[key] is not
\* undefined and has no push, so groups[key].push(item) throws a TypeError
GroupThrow ==
  /\ gPc = "loop"
  /\ gPos <= Len(gData)
  /\ GroupKey(gData[gPos], gFields) \in InheritedKeys
  /\ gPc' = "threw"
  /\ UNCHANGED << gData, gFields, groups, gPos, cvars, xvars >>

\* return groups
GroupReturn ==
  /\ gPc = "loop"
  /\ gPos > Len(gData)
  /\ gPc' = "returned"
  /\ UNCHANGED << gData, gFields, groups, gPos, cvars, xvars >>

NextGroup ==
  \/ GroupItem
  \/ GroupThrow
  \/ GroupReturn

SpecGroup == InitGroup /\ [][NextGroup]_vars

(***************************************************************************)
(* aggregateGroup and groupAndAggregate (grouper.js).                      *)
(***************************************************************************)
\* Infinity and -Infinity
PosInf == [ t |-> "inf", s |-> << >>, n |-> 1 ]

NegInf == [ t |-> "inf", s |-> << >>, n |-> -1 ]

k_group == << "_","g","r","o","u","p" >>

k_count == << "_","c","o","u","n","t" >>

\* the values of a filter that lets the empty string through
FieldValuesKeepingEmpty(group, fieldName) ==
  SelectSeq([ i \in 1..Len(group) |-> Get(group[i], fieldName) ],
            LAMBDA v : v # Null /\ v # Undefined)

\* group.map(item => item[fieldName]).filter(v => v !== null && v !== undefined && v !== '')
FieldValues(group, fieldName) ==
  SelectSeq([ i \in 1..Len(group) |-> Get(group[i], fieldName) ],
            LAMBDA v : v # Null /\ v # Undefined /\ v # Str(<< >>))

\* Number(v) || other
NumberOr(v, other) ==
  LET x == ToNumber(v)
  IN  IF x.t = "nan" \/ (x.t = "num" /\ x.n = 0) THEN other ELSE x

RECURSIVE SumValues(_)
\* values.reduce((sum, v) => sum + (Number(v) || 0), 0)
SumValues(values) ==
  IF Len(values) = 0 THEN 0
  ELSE SumValues(SubSeq(values, 1, Len(values) - 1))
         + NumberOr(values[Len(values)], Num(0)).n

\* Math.min(...ns), each of ns an integer or Infinity
MathMin(ns) ==
  LET finite == { ns[i].n : i \in { j \in 1..Len(ns) : ns[j].t = "num" } }
  IN  IF finite = {} THEN PosInf ELSE Num(MinOf(finite))

\* Math.max(...ns), each of ns an integer or -Infinity
MathMax(ns) ==
  LET finite == { ns[i].n : i \in { j \in 1..Len(ns) : ns[j].t = "num" } }
  IN  IF finite = {} THEN NegInf ELSE Num(MaxOf(finite))

RECURSIVE Gcd(_, _)
Gcd(a, b) == IF b = 0 THEN a ELSE Gcd(b, a % b)

\* a / b for an integer a and a positive integer b: the integer when the
\* division is exact, otherwise the fraction in lowest terms (two such
\* quotients of the integers of the model are the same double exactly when
\* they are the same fraction)
Divide(a, b) ==
  IF Abs(a) % b = 0
    THEN Num(IF a < 0 THEN 0 - (Abs(a) \div b) ELSE a \div b)
    ELSE LET g == Gcd(Abs(a), b)
         IN  [ t |-> "frac", s |-> << >>,
               n |-> (IF a < 0 THEN -1 ELSE 1) * ((Abs(a) \div g) * 1000 + (b \div g)) ]

\* one turn of the loop of aggregateGroup: the switch on aggType (the types
\* the model draws; any other type, not starting with 'percentile:', is the
\* default branch and assigns nothing)
AggregateField(group, fieldName, aggType, res) ==
  LET values == FieldValues(group, fieldName)
  IN  CASE aggType = "sum" -> Put(res, fieldName, Num(SumValues(values)))
        [] aggType = "avg" ->
             Put(res, fieldName,
                 IF Len(values) > 0 THEN Divide(SumValues(values), Len(values))
                 ELSE Num(0))
        [] aggType = "min" ->
             Put(res, fieldName,
                 MathMin([ i \in 1..Len(values) |-> NumberOr(values[i], PosInf) ]))
        [] aggType = "max" ->
             Put(res, fieldName,
                 MathMax([ i \in 1..Len(values) |-> NumberOr(values[i], NegInf) ]))
        [] aggType = "count" -> Put(res, fieldName, Num(Len(values)))
        [] aggType = "count_distinct" ->
             Put(res, fieldName, Num(Cardinality({ values[i] : i \in 1..Len(values) })))
        [] aggType = "first" ->
             Put(res, fieldName, IF Len(values) = 0 THEN Undefined ELSE values[1])
        [] aggType = "last" ->
             Put(res, fieldName, IF Len(values) = 0 THEN Undefined ELSE values[Len(values)])
        [] aggType = "concat" ->
             Put(res, fieldName,
                 Str(Join([ i \in 1..Len(values) |-> ToStr(values[i]) ], << ",", " " >>)))
        [] OTHER -> res

RECURSIVE AggregateFrom(_, _, _, _)
AggregateFrom(group, aggs, i, res) ==
  IF i > Len(aggs) THEN res
  ELSE AggregateFrom(group, aggs, i + 1, AggregateField(group, aggs[i].k, aggs[i].v, res))

\* aggregateGroup(group, aggregations)
AggregateGroup(group, aggs) == AggregateFrom(group, aggs, 1, << >>)

RECURSIVE AssignFrom(_, _, _)
AssignFrom(target, source, i) ==
  IF i > Len(source) THEN target
  ELSE AssignFrom(Put(target, source[i].k, source[i].v), source, i + 1)

\* Object.assign(target, source)
ObjectAssign(target, source) == AssignFrom(target, source, 1)

RECURSIVE GroupFieldsFrom(_, _, _, _)
\* groupByFields.forEach((field, index) => groupResult[field] = ...)
GroupFieldsFrom(groupResult, fields, keyParts, index) ==
  IF index > Len(fields) THEN groupResult
  ELSE GroupFieldsFrom(
         Put(groupResult, fields[index],
             IF index > Len(keyParts) THEN Undefined
             ELSE IF keyParts[index] = sNullMarker THEN Null
             ELSE Str(keyParts[index])),
         fields, keyParts, index + 1)

\* the body of the loop of groupAndAggregate: the row for one entry of groups
GroupRow(key, group, fields, aggs) ==
  LET keyParts == Split(key, << "|" >>)
      groupResult == << Prop(k_group, Str(key)), Prop(k_count, Num(Len(group))) >>
  IN  ObjectAssign(GroupFieldsFrom(groupResult, fields, keyParts, 1),
                   AggregateGroup(group, aggs))

\* the objects an entry of groups holds
Members(entry) == [ m \in 1..Len(entry.v) |-> gData[entry.v[m]] ]

gZero == << Prop(kCat, Str(<< "b" >>)), Prop(kV, Num(0)) >>

gNeg == << Prop(kCat, Str(<< "b" >>)), Prop(kV, Num(-5)) >>

AggRecords == { gA10, gA20, gB5, gNoCat, gMarker, gCtor, gZero, gNeg }

AggTables == SeqsUpTo(AggRecords, MaxRows)

AggTypes == { "sum", "avg", "min", "max", "count", "first", "concat", "median" }

Aggregations == { << Prop(kV, a) >> : a \in AggTypes }

\* function groupAndAggregate(data, groupBy, aggregations) {
\*   const groups = groupByMultiple(data, groupByFields); const result = [];
InitAggregate ==
  /\ gData \in AggTables
  /\ gFields \in GroupFieldLists
  /\ aggregations \in Aggregations
  /\ groups = << >>
  /\ gPos = 1
  /\ gPc = "loop"
  /\ result = << >>
  /\ aPos = 1
  /\ aPc = "call"
  /\ input = << >>
  /\ data = << >>
  /\ options = NoOptions
  /\ cleaned = << >>
  /\ origin = << >>
  /\ sameArray = TRUE
  /\ before = << >>
  /\ pc = "done"
  /\ PivotIdle
  /\ PercentileIdle
  /\ CommandIdle
  /\ ValidatorIdle

\* one turn of the loop over Object.entries(groups)
AggregateRow ==
  /\ aPc = "call"
  /\ gPc = "returned"
  /\ aPos <= Len(groups)
  /\ result' = Append(result, GroupRow(groups[aPos].k, Members(groups[aPos]),
                                       gFields, aggregations))
  /\ aPos' = aPos + 1
  /\ UNCHANGED << aggregations, aPc, exceptAggregate >>

\* return result
AggregateReturn ==
  /\ aPc = "call"
  /\ gPc = "returned"
  /\ aPos > Len(groups)
  /\ aPc' = "returned"
  /\ UNCHANGED << aggregations, result, aPos, exceptAggregate >>

\* the TypeError of groupByMultiple leaves groupAndAggregate
AggregateThrow ==
  /\ aPc = "call"
  /\ gPc = "threw"
  /\ aPc' = "threw"
  /\ UNCHANGED << aggregations, result, aPos, exceptAggregate >>

NextAggregate ==
  \/ GroupItem
  \/ GroupThrow
  \/ GroupReturn
  \/ AggregateRow
  \/ AggregateReturn
  \/ AggregateThrow

SpecAggregate == InitAggregate /\ [][NextAggregate]_vars

(***************************************************************************)
(* aggregateGroup (grouper.js) called on one group.                        *)
(***************************************************************************)
gEmptyV == << Prop(kCat, Str(<< "a" >>)), Prop(kV, Str(<< >>)) >>

gNullV == << Prop(kCat, Str(<< "a" >>)), Prop(kV, Null) >>

gNoV == << Prop(kCat, Str(<< "a" >>)) >>

gTextV == << Prop(kCat, Str(<< "a" >>)), Prop(kV, Str(<< "x" >>)) >>

MemberRecords == { gA10, gA20, gZero, gNeg, gEmptyV, gNullV, gNoV, gTextV }

MemberTypes == { "sum", "avg", "count", "min" }

\* the arguments of aggregateGroup(group, aggregations)
InitAggregateGroup ==
  /\ gData \in SeqsUpTo(MemberRecords, MaxRows)
  /\ aggregations \in { << Prop(kV, a) >> : a \in MemberTypes }
  /\ gFields = << >>
  /\ groups = << >>
  /\ gPos = 1
  /\ gPc = "returned"
  /\ result = << >>
  /\ aPos = 1
  /\ aPc = "group"
  /\ input = << >>
  /\ data = << >>
  /\ options = NoOptions
  /\ cleaned = << >>
  /\ origin = << >>
  /\ sameArray = TRUE
  /\ before = << >>
  /\ pc = "done"
  /\ PivotIdle
  /\ PercentileIdle
  /\ CommandIdle
  /\ ValidatorIdle

\* aggregateGroup(group, aggregations): result holds the object returned
AggregateGroupCall ==
  /\ aPc = "group"
  /\ result' = << AggregateGroup(gData, aggregations) >>
  /\ aPc' = "grouped"
  /\ UNCHANGED << aggregations, aPos, exceptAggregate >>

NextAggregateGroup == AggregateGroupCall

SpecAggregateGroup == InitAggregateGroup /\ [][NextAggregateGroup]_vars

(***************************************************************************)
(* pivotTable (grouper.js).                                                *)
(***************************************************************************)
\* the elements of a Set filled with the elements of seq, in insertion order
SetOf(seq) ==
  Pick(seq, SelectSeq(Indices(seq), LAMBDA i : \A j \in 1..(i - 1) : seq[j] # seq[i]))

\* the order of Array.prototype.sort without a comparator: undefined goes
\* last, the other elements compare by their string forms
SortsBefore(a, b) ==
  a # Undefined /\ (b = Undefined \/ StrLess(ToStr(a), ToStr(b)))

RECURSIVE DefaultSort(_)
\* Array.prototype.sort without a comparator (the sort is stable)
DefaultSort(seq) ==
  IF Len(seq) = 0 THEN << >>
  ELSE LET sorted == DefaultSort(SubSeq(seq, 1, Len(seq) - 1))
           e == seq[Len(seq)]
       IN  InsertAt(sorted,
                    Cardinality({ i \in 1..Len(sorted) : ~SortsBefore(e, sorted[i]) }), e)

\* the template literal `${a}::${b}`
CellKey(a, b) == ToStr(a) \o << ":", ":" >> \o ToStr(b)

\* obj[key] = v on a plain object, for a key Object.prototype does not define
SetProperty(obj, key, v) ==
  IF HasKey(obj, key) THEN Put(obj, key, v)
  ELSE LET with == AddProperty(obj, key)
       IN  [ i \in 1..Len(with) |-> IF with[i].k = key THEN Prop(key, v) ELSE with[i] ]

RECURSIVE SumInts(_)
\* vals.reduce((sum, v) => sum + v, 0)
SumInts(vals) == IF Len(vals) = 0 THEN 0 ELSE Head(vals) + SumInts(Tail(vals))

\* values[`${row}::${col}`] || [] after the first loop of pivotTable
CellValues(T, rowField, columnField, valueField, key) ==
  LET hits == SelectSeq(T, LAMBDA item :
                CellKey(Get(item, rowField), Get(item, columnField)) = key)
  IN  [ i \in 1..Len(hits) |-> NumberOr(Get(hits[i], valueField), Num(0)).n ]

\* the switch on aggFunction
AggValue(vals, fn) ==
  LET elems == { vals[i] : i \in 1..Len(vals) }
  IN  CASE fn = "avg"   -> IF Len(vals) > 0 THEN Divide(SumInts(vals), Len(vals)) ELSE Num(0)
        [] fn = "count" -> Num(Len(vals))
        [] fn = "min"   -> IF Len(vals) > 0 THEN Num(MinOf(elems)) ELSE Num(0)
        [] fn = "max"   -> IF Len(vals) > 0 THEN Num(MaxOf(elems)) ELSE Num(0)
        [] OTHER        -> Num(SumInts(vals))

RECURSIVE PivotRow(_, _, _, _, _, _, _, _)
\* pivot[row] = {}; for (const col of columns) pivot[row][col] = aggValue
PivotRow(T, rowField, columnField, valueField, fn, row, columns, c) ==
  IF c = 0 THEN << >>
  ELSE SetProperty(PivotRow(T, rowField, columnField, valueField, fn, row, columns, c - 1),
                   ToStr(columns[c]),
                   AggValue(CellValues(T, rowField, columnField, valueField,
                                       CellKey(row, columns[c])), fn))

RECURSIVE PivotData(_, _, _, _, _, _, _, _)
\* for (const row of rows) { ... }
PivotData(T, rowField, columnField, valueField, fn, rows, columns, r) ==
  IF r = 0 THEN << >>
  ELSE SetProperty(PivotData(T, rowField, columnField, valueField, fn, rows, columns, r - 1),
                   ToStr(rows[r]),
                   PivotRow(T, rowField, columnField, valueField, fn, rows[r],
                            columns, Len(columns)))

\* pivotTable(data, rowField, columnField, valueField, aggFunction)
PivotTable(T, rowField, columnField, valueField, fn) ==
  LET rows == SetOf([ i \in 1..Len(T) |-> Get(T[i], rowField) ])
      columns == SetOf([ i \in 1..Len(T) |-> Get(T[i], columnField) ])
  IN  [ rows |-> DefaultSort(rows),
        columns |-> DefaultSort(columns),
        data |-> PivotData(T, rowField, columnField, valueField, fn,
                           rows, columns, Len(rows)) ]

kR == << "r" >>

kC == << "c" >>

sXY == << "x", ":", ":", "y" >>

sYQ == << "y", ":", ":", "q" >>

PivotRecord(r, c, v) == << Prop(kR, r), Prop(kC, c), Prop(kV, v) >>

pXP == PivotRecord(Str(<< "x" >>), Str(<< "p" >>), Str(<< "1" >>))

pXQ == PivotRecord(Str(<< "x" >>), Str(<< "q" >>), Str(<< "2" >>))

pYP == PivotRecord(Str(<< "y" >>), Str(<< "p" >>), Str(<< "3" >>))

pXYQ == PivotRecord(Str(sXY), Str(<< "q" >>), Num(2))

pYYQ == PivotRecord(Str(<< "y" >>), Str(sYQ), Str(<< "x" >>))

pNoRow == << Prop(kC, Num(10)), Prop(kV, Num(-5)) >>

PivotRecords == { pXP, pXQ, pYP, pXYQ, pYYQ, pNoRow }

PivotTables == SeqsUpTo(PivotRecords, MaxRows)

AggFunctions == { "sum", "avg", "count", "min", "max", "median" }

\* the call pivotTable(data, 'r', 'c', 'v', aggFunction) about to run
InitPivot ==
  /\ pvData \in PivotTables
  /\ aggFunction \in AggFunctions
  /\ pivot = [ rows |-> << >>, columns |-> << >>, data |-> << >> ]
  /\ pvPc = "call"
  /\ input = << >>
  /\ data = << >>
  /\ options = NoOptions
  /\ cleaned = << >>
  /\ origin = << >>
  /\ sameArray = TRUE
  /\ before = << >>
  /\ pc = "done"
  /\ GroupIdle
  /\ AggregateIdle
  /\ PercentileIdle
  /\ CommandIdle
  /\ ValidatorIdle

\* the call returns
PivotCall ==
  /\ pvPc = "call"
  /\ pivot' = PivotTable(pvData, kR, kC, kV, aggFunction)
  /\ pvPc' = "returned"
  /\ UNCHANGED << pvData, aggFunction, exceptPivot >>

NextPivot == PivotCall

SpecPivot == InitPivot /\ [][NextPivot]_vars

(***************************************************************************)
(* calculatePercentile (grouper.js).                                       *)
(***************************************************************************)
\* the array left as it is
SortNumbersNot(seq) == seq

RECURSIVE SortNumbers(_)
\* [...values].sort((a, b) => a - b) on finite numbers
SortNumbers(seq) ==
  IF Len(seq) = 0 THEN << >>
  ELSE LET sorted == SortNumbers(SubSeq(seq, 1, Len(seq) - 1))
           e == seq[Len(seq)]
       IN  InsertAt(sorted, Cardinality({ i \in 1..Len(sorted) : sorted[i] <= e }), e)

\* calculatePercentile(values, percentile) for integers values and a
\* percentile that is a multiple of 25: percentile / 100 is then a number of
\* quarters, and index, weight and the weighted sum are computed without
\* rounding; the model counts them in quarters
CalculatePercentile(vals, pct) ==
  IF Len(vals) = 0 THEN Num(0)
  ELSE LET sorted == SortNumbers(vals)
           index4 == (pct \div 25) * (Len(sorted) - 1)
           lower == index4 \div 4
           upper == IF index4 % 4 = 0 THEN lower ELSE lower + 1
           weight4 == index4 - 4 * lower
       IN  IF upper >= Len(sorted) THEN Num(sorted[Len(sorted)])
           ELSE Divide(sorted[lower + 1] * (4 - weight4) + sorted[upper + 1] * weight4, 4)

Numbers == { -5, 0, 10, 20 }

Percentiles == { 0, 25, 50, 75, 100, 200 }

\* the call calculatePercentile(values, percentile) about to run
InitPercentile ==
  /\ qValues \in SeqsUpTo(Numbers, MaxRows)
  /\ percentile \in Percentiles
  /\ quantile = Num(0)
  /\ qPc = "call"
  /\ input = << >>
  /\ data = << >>
  /\ options = NoOptions
  /\ cleaned = << >>
  /\ origin = << >>
  /\ sameArray = TRUE
  /\ before = << >>
  /\ pc = "done"
  /\ GroupIdle
  /\ AggregateIdle
  /\ PivotIdle
  /\ CommandIdle
  /\ ValidatorIdle

\* the call returns
PercentileCall ==
  /\ qPc = "call"
  /\ quantile' = CalculatePercentile(qValues, percentile)
  /\ qPc' = "returned"
  /\ UNCHANGED << qValues, percentile, exceptPercentile >>

NextPercentile == PercentileCall

SpecPercentile == InitPercentile /\ [][NextPercentile]_vars

(***************************************************************************)
(* The clean command (index.js).                                           *)
(***************************************************************************)
\* the text of an operator of the filter switch
OperatorText(op) ==
  CASE op = "eq"         -> << "e","q" >>
    [] op = "neq"        -> << "n","e","q" >>
    [] op = "gt"         -> << "g","t" >>
    [] op = "lt"         -> << "l","t" >>
    [] op = "gte"        -> << "g","t","e" >>
    [] op = "lte"        -> << "l","t","e" >>
    [] op = "contains"   -> << "c","o","n","t","a","i","n","s" >>
    [] op = "startsWith" -> << "s","t","a","r","t","s","W","i","t","h" >>
    [] op = "endsWith"   -> << "e","n","d","s","W","i","t","h" >>
    [] op = "regex"      -> << "r","e","g","e","x" >>

\* the case of the filter switch a text selects: an operator, or the default
\* branch
OperatorCase(text) ==
  IF \E op \in Operators : OperatorText(op) = text
    THEN CHOOSE op \in Operators : OperatorText(op) = text
    ELSE "default"

sUndefined == << "u","n","d","e","f","i","n","e","d" >>

\* options.filter after the parsing of the filter expression: the object
\* when the text has exactly three parts, otherwise the text itself, of which
\* cleanData reads column, operator and value as undefined
ParseFilter(expr) ==
  LET parts == Split(expr, << ":" >>)
  IN  IF Len(parts) = 3
        THEN Filter(parts[1], OperatorCase(parts[2]), Str(parts[3]))
        ELSE Filter(sUndefined, "default", Undefined)

\* options.transform after the parsing of the transform expression: the
\* object of the first two parts when the text has at least two, otherwise
\* the text itself, of which cleanData reads column as undefined
ParseTransform(expr) ==
  LET parts == Split(expr, << ":" >>)
  IN  IF Len(parts) >= 2
        THEN Transform(parts[1], parts[2])
        ELSE Transform(<< >>, sUndefined)

\* an option the command parses: absent or empty it is left alone
Parsed(opt, Parse(_)) ==
  IF opt = << >> \/ opt = << << >> >> THEN << >> ELSE << Parse(opt[1]) >>

SplitComma(text) == Split(text, << "," >>)

sAgeGt18 == << "a","g","e",":","g","t",":","1","8" >>

sAgeAbove18 == << "a","g","e",":","a","b","o","v","e",":","1","8" >>

sAgeGt == << "a","g","e",":","g","t" >>

sNameUppercase == << "n","a","m","e",":" >> \o sUppercase

sNameReplace == << "n","a","m","e",":","r","e","p","l","a","c","e",":","a",",","b" >>

sAgeMultiply == << "a","g","e",":","m","u","l","t","i","p","l","y",":","2" >>

sAgeDivide == << "a","g","e",":","d","i","v","i","d","e",":","2" >>

sNameShout == << "n","a","m","e",":","s","h","o","u","t" >>

sNameAge == << "n","a","m","e",",","a","g","e" >>

sNameEqAB == << "n","a","m","e",":","e","q",":","a",":","b" >>

FilterExprs == { sAgeGt18, sAgeAbove18, sAgeGt, sNameEqAB }

TransformExprs ==
  { sNameUppercase, sNameReplace, sAgeMultiply, sAgeDivide, sNameShout, kName }

Optional(S) == { << >> } \cup { << x >> : x \in S }

\* the command lines: --filter, --transform and --columns, each given or
\* not; the other options of the command are not given
CommandLines ==
  [ filter : Optional(FilterExprs), transform : Optional(TransformExprs),
    columns : Optional({ sNameAge }) ]

\* the action of the clean command after const data = await readFile(input)
InitCommand ==
  /\ input \in Tables
  /\ argv \in CommandLines
  /\ written = << >>
  /\ cPc = "parse"
  /\ options = NoOptions
  /\ data = input
  /\ cleaned = input
  /\ origin = Indices(input)
  /\ sameArray = TRUE
  /\ before = input
  /\ pc = "parse"
  /\ GroupIdle
  /\ AggregateIdle
  /\ PivotIdle
  /\ PercentileIdle
  /\ ValidatorIdle

\* the parsing of the filter, transform and columns options, up to the call
\* cleanData(data, options)
CommandParse ==
  /\ cPc = "parse"
  /\ options' = [ NoOptions EXCEPT !.filter = Parsed(argv.filter, ParseFilter),
                                   !.transform = Parsed(argv.transform, ParseTransform),
                                   !.columns = Parsed(argv.columns, SplitComma) ]
  /\ pc' = "removeEmpty"
  /\ cPc' = "clean"
  /\ UNCHANGED << input, data, cleaned, origin, sameArray, before, argv, written,
                  gvars, avars, pvvars, qvars, vvars >>

\* await writeFile(outputFile, cleaned, outputFormat)
CommandWrite ==
  /\ cPc = "clean"
  /\ pc = "done"
  /\ written' = << cleaned >>
  /\ cPc' = "written"
  /\ UNCHANGED << argv, cvars, gvars, avars, pvvars, qvars, vvars >>

NextCommand ==
  \/ CommandParse
  \/ Next
  \/ CommandWrite

SpecCommand == InitCommand /\ [][NextCommand]_vars

(***************************************************************************)
(* The validator (validator.js).                                           *)
(***************************************************************************)
sRequired == << "r","e","q","u","i","r","e","d" >>

sPositive == << "p","o","s","i","t","i","v","e" >>

sMinLength == << "m","i","n","L","e","n","g","t","h" >>

sEnum == << "e","n","u","m" >>

sNoSuch == << "n","o","s","u","c","h" >>

\* the fixed texts of the messages of validateField and addRule, each
\* standing as one character
sFailedText == << "<validation failed>" >>

sErrorText == << "<validation error>" >>

sUnknownRuleText == << "<unknown rule>" >>

sTypeErrorText == << "<TypeError>" >>

sMustBeGiven == << "m","u","s","t" >>

\* new ValidationRule(name, validator, errorMessage), validator being the
\* closure of addRule over ruleName and args; args and errorMessage are
\* << >> when undefined
ValidationRule(name, args, errorMessage) ==
  [ name |-> name, args |-> args, errorMessage |-> errorMessage ]

\* rule.validator(value) for the rules the model adds: "valid" or "invalid"
\* for the value returned, or "throws" with the message of the error (the
\* rule names of the model name nothing that Object.prototype defines)
RunValidator(rule, value) ==
  CASE rule.name = sRequired ->
         [ outcome |-> IF value # Null /\ value # Undefined /\ value # Str(<< >>)
                         THEN "valid" ELSE "invalid",
           message |-> << >> ]
    [] rule.name = sPositive ->
         [ outcome |-> IF Less(Num(0), ToNumber(value)) THEN "valid" ELSE "invalid",
           message |-> << >> ]
    [] rule.name = sMinLength ->
         [ outcome |-> IF rule.args # << >> /\ Len(ToStr(value)) >= rule.args[1]
                         THEN "valid" ELSE "invalid",
           message |-> << >> ]
    [] rule.name = sEnum /\ rule.args = << >> ->
         \* values is undefined: values.includes throws a TypeError
         [ outcome |-> "throws", message |-> sTypeErrorText ]
    [] OTHER ->
         [ outcome |-> "throws", message |-> sUnknownRuleText \o rule.name ]

\* the entry validateField pushes for a rule whose check gave `ran`
FieldError(rule, fieldName, ran) ==
  [ rule |-> rule.name,
    message |->
      IF ran.outcome = "throws"
        THEN fieldName \o sErrorText \o ran.message
      ELSE IF rule.errorMessage \notin { << >>, << << >> >> }
        THEN rule.errorMessage[1]
      ELSE fieldName \o sFailedText \o rule.name ]

\* the array errors of validateField, ran[k] being what the check of
\* fieldRules[k] gave
FieldErrors(fieldRules, fieldName, ran) ==
  Join([ k \in 1..Len(fieldRules) |->
           IF ran[k].outcome = "valid" THEN << >>
           ELSE << FieldError(fieldRules[k], fieldName, ran[k]) >> ], << >>)

\* { valid: errors.length === 0, errors }
FieldResult(fieldErrors) ==
  [ valid |-> Len(fieldErrors) = 0, errors |-> fieldErrors ]

\* validateField(fieldName, value), fieldRules being this.rules.get(fieldName) || []
ValidateField(fieldRules, fieldName, value) ==
  FieldResult(FieldErrors(fieldRules, fieldName,
    [ k \in 1..Len(fieldRules) |-> RunValidator(fieldRules[k], value) ]))

\* data[fieldName] for a record created by an object literal or JSON.parse
\* that has no own property __proto__
FieldOf(item, fieldName) ==
  IF fieldName = sProto /\ ~HasKey(item, fieldName) THEN ObjectPrototype
  ELSE Get(item, fieldName)

RECURSIVE FieldResultsFrom(_, _, _)
\* the object fieldResults after the loop of validate over the first n
\* entries of this.rules: fieldResults[fieldName] = result adds or rewrites
\* an own property, except for the name __proto__, which sets the prototype
\* of fieldResults and adds no property
FieldResultsFrom(ruleMap, item, n) ==
  IF n = 0 THEN << >>
  ELSE LET sofar == FieldResultsFrom(ruleMap, item, n - 1)
           fieldName == ruleMap[n].k
           res == ValidateField(ruleMap[n].v, fieldName, FieldOf(item, fieldName))
       IN  IF fieldName = sProto THEN sofar ELSE SetProperty(sofar, fieldName, res)

\* validate(data)
Validate(ruleMap, item) ==
  [ valid |-> \A n \in 1..Len(ruleMap) :
                ValidateField(ruleMap[n].v, ruleMap[n].k, FieldOf(item, ruleMap[n].k)).valid,
    fieldResults |-> FieldResultsFrom(ruleMap, item, Len(ruleMap)) ]

\* the entries getErrors pushes for one entry [fieldName, result] of
\* validation.fieldResults
ResultErrors(entry, item, i) ==
  IF entry.v.valid THEN << >>
  ELSE [ e \in 1..Len(entry.v.errors) |->
           [ row |-> i, field |-> entry.k,
             rule |-> entry.v.errors[e].rule,
             message |-> entry.v.errors[e].message,
             value |-> FieldOf(item, entry.k) ] ]

\* the entries getErrors pushes for dataArray[i], validation being
\* this.validate(dataArray[i])
ValidationErrors(validation, item, i) ==
  IF validation.valid THEN << >>
  ELSE Join([ f \in 1..Len(validation.fieldResults) |->
                ResultErrors(validation.fieldResults[f], item, i) ], << >>)

\* the entries getErrors pushes for dataArray[i], i counted from 0
RowErrors(ruleMap, item, i) ==
  ValidationErrors(Validate(ruleMap, item), item, i)

\* getErrors(dataArray)
GetErrors(ruleMap, T) ==
  Join([ r \in 1..Len(T) |-> RowErrors(ruleMap, T[r], r - 1) ], << >>)

\* this.rules after addRule(fieldName, ruleName, args, errorMessage)
AddRule(ruleMap, fieldName, rule) ==
  IF HasKey(ruleMap, fieldName)
    THEN Put(ruleMap, fieldName, Append(Get(ruleMap, fieldName), rule))
    ELSE Append(ruleMap, Prop(fieldName, << rule >>))

RECURSIVE RuleCount(_)
\* getRuleCount()
RuleCount(ruleMap) ==
  IF Len(ruleMap) = 0 THEN 0 ELSE Len(Head(ruleMap).v) + RuleCount(Tail(ruleMap))

ValidatedRecords == { rAlice, rBlank, rNoAge }

ValidatedFields == { kAge, sProto }

AddedRules ==
  { ValidationRule(sRequired, << >>, << >>),
    ValidationRule(sRequired, << >>, << sMustBeGiven >>),
    ValidationRule(sPositive, << >>, << >>),
    ValidationRule(sMinLength, << 3 >>, << >>),
    ValidationRule(sEnum, << >>, << >>),
    ValidationRule(sNoSuch, << >>, << >>) }

\* new DataValidator(), and the array getErrors is going to be given
InitValidator ==
  /\ rules = << >>
  /\ dataArray \in SeqsUpTo(ValidatedRecords, MaxRows)
  /\ errors = << >>
  /\ vPc = "rules"
  /\ input = << >>
  /\ data = << >>
  /\ options = NoOptions
  /\ cleaned = << >>
  /\ origin = << >>
  /\ sameArray = TRUE
  /\ before = << >>
  /\ pc = "done"
  /\ GroupIdle
  /\ AggregateIdle
  /\ PivotIdle
  /\ PercentileIdle
  /\ CommandIdle

\* validator.addRule(fieldName, ruleName, args, errorMessage)
ValidatorAddRule ==
  /\ vPc = "rules"
  /\ RuleCount(rules) < MaxRules
  /\ \E fieldName \in ValidatedFields : \E rule \in AddedRules :
       rules' = AddRule(rules, fieldName, rule)
  /\ UNCHANGED << dataArray, errors, vPc, exceptValidator >>

\* validator.getErrors(dataArray)
ValidatorGetErrors ==
  /\ vPc = "rules"
  /\ errors' = GetErrors(rules, dataArray)
  /\ vPc' = "returned"
  /\ UNCHANGED << rules, dataArray, exceptValidator >>

NextValidator ==
  \/ ValidatorAddRule
  \/ ValidatorGetErrors

SpecValidator == InitValidator /\ [][NextValidator]_vars

(***************************************************************************)
(* Properties of the cleaning pipeline.                                    *)
(***************************************************************************)
\* the stage that ran last
LastStage == Stages[(IF pc = "done" THEN Len(Stages) + 1 ELSE IndexOf(Stages, pc)) - 1]

\* the arrays a stage can turn T into
StageResults(stage, T, o) ==
  CASE stage = "removeEmpty" -> { Pick(T, RemoveEmptyKeeps(T)) }
    [] stage = "deduplicate" -> { Pick(T, DeduplicateKeeps(T, o)) }
    [] stage = "trim"        -> { TrimItems(T) }
    [] stage = "case"        -> { CaseItems(T, o.case[1]) }
    [] stage = "columns"     -> { SelectColumns(T, o.columns[1]) }
    [] stage = "filter"      -> { Pick(T, FilterKeepsAt(T, o.filter[1])) }
    [] stage = "transform"   -> { TransformItems(T, o.transform[1]) }
    [] stage = "sort"        -> { Pick(T, order) : order \in SortOrders(T, o.sort[1]) }
    [] stage = "limit"       -> { Slice(T, o.limit[1]) }

RECURSIVE InOrder(_, _, _)
\* the arrays the given stages from stage number st on, applied in the fixed
\* order, can turn the arrays Ts into
InOrder(Ts, st, o) ==
  IF st > Len(Stages) THEN Ts
  ELSE InOrder(IF st \in Given(o)
                 THEN UNION { StageResults(Stages[st], T, o) : T \in Ts }
                 ELSE Ts,
               st + 1, o)

\* C1: for every array and every combination of options, the result of
\* cleanData is the given stages applied in the order remove-empty,
\* deduplicate, trim, case, columns, filter, transform, sort, limit, a stage
\* whose option is absent passing the array through unchanged.
C1_StagesInOrder == pc = "done" => cleaned \in InOrder({ input }, 1, options)

\* the same with the limit stage taken as the code takes it, absent when the
\* limit is 0
InOrderUnlessLimitZero ==
  (pc = "done" /\ options.limit # << 0 >>) => cleaned \in InOrder({ input }, 1, options)

ScenarioInput == << rBob, rAlice, rAlice >>

ScenarioOutput ==
  << << Prop(kName, Str(<< "A","L","I","C","E" >>)), Prop(kAge, Str(<< "3","0" >>)) >> >>

\* C2: the pipeline with trim, deduplicate without a key field, case upper and
\* filter age gt "18" on [{name:" Bob ",age:"17"},{name:"alice",age:"30"},
\* {name:"alice",age:"30"}] returns exactly [{name:"ALICE",age:"30"}].
C2_Scenario ==
  (pc = "done" /\ input = ScenarioInput /\ options = ScenarioOptions)
    => cleaned = ScenarioOutput

C2_Witness == pc = "done" /\ input = ScenarioInput /\ options = ScenarioOptions

\* the indices of the items whose dedup key is on no earlier item
FirstOccurrences(T, o) ==
  SelectSeq(Indices(T), LAMBDA i :
    \A j \in 1..(i - 1) : DedupKey(T[j], o) # DedupKey(T[i], o))

\* C3: the deduplicate stage returns exactly the subsequence of its input
\* made of the items whose dedup key (the key field's value, or the JSON
\* serialization of the item) is on no earlier item, in their order and
\* unchanged; the first occurrence of every key is retained.
C3_FirstOccurrences ==
  (pc = "trim" /\ options.deduplicate)
    => /\ cleaned = Pick(before, FirstOccurrences(before, options))
       /\ \A i \in 1..Len(before) :
            \E j \in 1..Len(cleaned) :
              /\ DedupKey(cleaned[j], options) = DedupKey(before[i], options)
              /\ cleaned[j] = before[MinOf({ k \in 1..i :
                     DedupKey(before[k], options) = DedupKey(before[i], options) })]

C3_Witness ==
  /\ pc = "trim" /\ options.deduplicate /\ options.key = << kName >>
  /\ Len(before) = 3 /\ Len(cleaned) = 2
  /\ before[1] # before[2] /\ DedupKey(before[1], options) = DedupKey(before[2], options)

\* C4: the deduplicate stage is idempotent: deduplicating its output again,
\* with the same key field or none, gives that output; and the output is no
\* longer than the input.
C4_DedupIdempotent ==
  (pc = "trim" /\ options.deduplicate)
    => /\ Pick(cleaned, DeduplicateKeeps(cleaned, options)) = cleaned
       /\ Len(cleaned) <= Len(before)

C4_Witness ==
  /\ pc = "trim" /\ options.deduplicate /\ options.key = << >>
  /\ Len(before) = 3 /\ Len(cleaned) = 1

\* C5: for every array T and every limit N >= 0 the limit stage returns the
\* prefix of T of length min(N, length(T)); a limit of 0 gives the empty
\* array.
C5_LimitPrefix ==
  (pc = "done" /\ options.limit # << >>)
    => LET n == options.limit[1]
       IN  cleaned = SubSeq(before, 1, IF n < Len(before) THEN n ELSE Len(before))

\* C6: the record count never increases through the pipeline: after
\* remove-empty, deduplicate, filter and limit it is at most the count before
\* the stage, and trim, case, columns, transform and sort leave it unchanged.
C6_Counts ==
  /\ Len(cleaned) <= Len(input)
  /\ pc # "removeEmpty" =>
       IF LastStage \in { "removeEmpty", "deduplicate", "filter", "limit" }
         THEN Len(cleaned) <= Len(before)
         ELSE Len(cleaned) = Len(before)

C6_Witness ==
  /\ pc = "done" /\ options.trim /\ options.filter # << >>
  /\ Len(input) = 3 /\ Len(cleaned) = 1

\* C7: trim and case conversion are idempotent: trimming the trimmed array
\* again, or applying the same conversion (upper, lower or title) to the
\* converted array again, changes nothing.
C7_TrimCaseIdempotent ==
  /\ (pc = "case" /\ options.trim) => TrimItems(cleaned) = cleaned
  /\ (pc = "columns" /\ options.case # << >>) => CaseItems(cleaned, options.case[1]) = cleaned

C7_Witness ==
  /\ pc = "columns" /\ options.case = << "title" >>
  /\ \E r \in 1..Len(cleaned) : before[r] = rNine /\ cleaned[r] # before[r]

\* C8: sorting descending by a field and then limiting to N returns the N
\* records with the largest values of the field, and two records that compare
\* equal on the field (an absent field included) keep their relative order.
C8_SortDescLimit ==
  /\ (pc = "limit" /\ options.sort # << >>) =>
       \A x, y \in { before[i] : i \in 1..Len(before) } :
         (x # y /\ Compare(x, y, options.sort[1]) = 0) =>
           SelectSeq(cleaned, LAMBDA r : r \in { x, y })
             = SelectSeq(before, LAMBDA r : r \in { x, y })
  /\ (pc = "done" /\ options.sort # << >> /\ Truthy(options, "limit")) =>
       (options.sort[1].order = "desc" =>
          \A i \in 1..Len(cleaned) : \A j \in (Len(cleaned) + 1)..Len(before) :
            ~Less(Get(before[i], options.sort[1].column),
                  Get(before[j], options.sort[1].column)))

\* the indices in before of the records the stage that ran last kept, when
\* the stages so far only dropped records
KeptOf == { origin[i] : i \in 1..Len(origin) }

\* C16: in the filter stage a record that does not have the filter's field is
\* dropped under eq, gt, lt, gte, lte, contains, startsWith, endsWith and
\* regex, for every operand, and is kept under neq.
C16_AbsentField ==
  (pc = "transform" /\ options.filter # << >> /\ before = data) =>
    \A i \in 1..Len(before) :
      ~HasKey(before[i], options.filter[1].column) =>
        (i \in KeptOf <=> options.filter[1].operator = "neq")

\* the same for the relational operators, and for eq and neq when the
\* operand is a string
AbsentFieldCompared ==
  (/\ pc = "transform" /\ options.filter # << >> /\ before = data
   /\ \/ options.filter[1].operator \in { "gt", "lt", "gte", "lte" }
      \/ /\ options.filter[1].operator \in { "eq", "neq" }
         /\ IsStr(options.filter[1].value)) =>
    \A i \in 1..Len(before) :
      ~HasKey(before[i], options.filter[1].column) =>
        (i \in KeptOf <=> options.filter[1].operator = "neq")

\* C18: cleanData is observably pure: for every input array and every
\* combination of options the input array holds, after the call, the same
\* records in the same order, each with the same fields and values as before
\* the call, and the array returned is a separate array.
C18_Pure ==
  /\ data = input
  /\ pc = "done" => ~sameArray

\* the records and their order are left alone when neither a transform nor a
\* sort is given
PureUnlessTransformOrSort ==
  (options.transform = << >> /\ options.sort = << >>) => data = input

(***************************************************************************)
(* Properties of the clean command.                                        *)
(***************************************************************************)
sReplace == << "r","e","p","l","a","c","e" >>

sMultiply == << "m","u","l","t","i","p","l","y" >>

sDivide == << "d","i","v","i","d","e" >>

\* the transform kinds the documentation of the command names
TransformKinds ==
  { sUppercase, sLowercase, sCapitalize, sTrim, sNumber, sString,
    sReplace, sMultiply, sDivide }

\* the parts of the expression given for an option, none when it is not given
PartsOf(opt) == IF opt = << >> THEN << >> ELSE Split(opt[1], << ":" >>)

\* the command line names a filter operator or a transform kind that does
\* not exist
UnknownOperation ==
  \/ Len(PartsOf(argv.filter)) = 3
       /\ \A op \in Operators : OperatorText(op) # PartsOf(argv.filter)[2]
  \/ Len(PartsOf(argv.transform)) >= 2
       /\ PartsOf(argv.transform)[2] \notin TransformKinds

\* C17: a filter operator or transform kind that does not exist is reported
\* as an error when the expression is parsed, before any record is processed
\* and before the output file is written: for such a command line the clean
\* command does not go on to cleanData and writes no output file.
C17_UnknownOperationFails ==
  UnknownOperation => (cPc \in { "idle", "parse" } /\ written = << >>)

\* the value the claimed transform gives a field value
Transformed(v, kind, arg) ==
  CASE kind = sReplace ->
         LET args == Split(arg, << "," >>)
         IN  Str(Join(Split(ToStr(v), args[1]), args[2]))
    [] kind = sMultiply -> Times(v, Str(arg))
    [] kind = sDivide ->
         IF ToNumber(v).t = "num" THEN Divide(ToNumber(v).n, DigitsToNat(arg)) ELSE NaN

\* the command line gives only a transform, of the form field:kind:args with
\* kind replace, multiply or divide
TransformWithArgs ==
  /\ argv.filter = << >>
  /\ argv.columns = << >>
  /\ Len(PartsOf(argv.transform)) = 3
  /\ PartsOf(argv.transform)[2] \in { sReplace, sMultiply, sDivide }

\* C19: a transform expression field:kind:args given to the clean command is
\* applied to every record whose field is defined: with kind replace and args
\* from,to every occurrence of from in the field's string is replaced by to,
\* with kind multiply (divide) the field becomes Number(value) multiplied
\* (divided) by the argument.
C19_TransformArgs ==
  (cPc = "written" /\ TransformWithArgs) =>
    LET parts == PartsOf(argv.transform)
    IN  written[1] =
          [ r \in 1..Len(input) |->
              IF Get(input[r], parts[1]) # Undefined
                THEN Put(input[r], parts[1],
                         Transformed(Get(input[r], parts[1]), parts[2], parts[3]))
                ELSE input[r] ]

\* what the command writes for such an expression is the input unchanged
TransformArgsIgnored ==
  (cPc = "written" /\ TransformWithArgs) => written[1] = input

(***************************************************************************)
(* Properties of the grouper.                                              *)
(***************************************************************************)
\* the places (group, position) at which the item gData[i] is held
PlacesOf(i) ==
  { << g, m >> \in (1..Len(groups)) \X (1..MaxRows + 1) :
      m <= Len(groups[g].v) /\ groups[g].v[m] = i }

RECURSIVE SumOfSizes(_)
SumOfSizes(obj) == IF obj = << >> THEN 0 ELSE Len(Head(obj).v) + SumOfSizes(Tail(obj))

\* C9: groupByMultiple partitions its input: for every list of records and
\* every list of grouping fields it returns groups in which each input record
\* is held exactly once, and the group sizes add up to the number of records.
C9_Partition ==
  gPc # "loop" =>
    /\ gPc = "returned"
    /\ \A i \in 1..Len(gData) : Cardinality(PlacesOf(i)) = 1
    /\ SumOfSizes(groups) = Len(gData)

IsNullish(v) == v = Null \/ v = Undefined

\* C10: a record whose value for a grouping field is null or missing is
\* never in one group with a record whose value for that field is a real
\* value; the key part that stands for null differs from every real value.
C10_NullApart ==
  \A g \in 1..Len(groups) : \A m1, m2 \in 1..Len(groups[g].v) : \A f \in 1..Len(gFields) :
    ~ /\ IsNullish(Get(gData[groups[g].v[m1]], gFields[f]))
      /\ ~IsNullish(Get(gData[groups[g].v[m2]], gFields[f]))


(***************************************************************************)
(* Properties of groupAndAggregate.                                        *)
(***************************************************************************)
\* the fields that aggregations names
AggregatedFields == { aggregations[a].k : a \in 1..Len(aggregations) }

\* the input records whose composite key is key
RecordsOfKey(key) == { d \in 1..Len(gData) : GroupKey(gData[d], gFields) = key }

\* the row describes the group of the input records with composite key key
RowDescribes(row, key) ==
  LET members == RecordsOfKey(key)
      group == SelectSeq(gData, LAMBDA r : GroupKey(r, gFields) = key)
      aggregated == AggregateGroup(group, aggregations)
  IN  /\ Get(row, k_group) = Str(key)
      /\ Get(row, k_count) = Num(Cardinality(members))
      /\ \A f \in 1..Len(gFields) : \A d \in members :
           gFields[f] \notin AggregatedFields =>
             Get(row, gFields[f]) =
               IF IsNullish(Get(gData[d], gFields[f])) THEN Null
               ELSE Str(ToStr(Get(gData[d], gFields[f])))
      /\ \A a \in 1..Len(aggregated) : Get(row, aggregated[a].k) = aggregated[a].v
      /\ \A a \in 1..Len(aggregated) : \A f \in 1..Len(gFields) :
           \A i, j \in 1..Len(row) :
             (row[i].k = gFields[f] /\ row[j].k = aggregated[a].k /\ i # j) => i < j

GroupingScenario ==
  /\ gData = << gA10, gA20, gB5 >>
  /\ gFields = << kCat >>
  /\ aggregations = << Prop(kV, "sum") >>

GroupingScenarioRows ==
  << << Prop(k_group, Str(<< "a" >>)), Prop(k_count, Num(2)),
        Prop(kCat, Str(<< "a" >>)), Prop(kV, Num(30)) >>,
     << Prop(k_group, Str(<< "b" >>)), Prop(k_count, Num(1)),
        Prop(kCat, Str(<< "b" >>)), Prop(kV, Num(5)) >> >>

\* C11: every row groupAndAggregate returns has _group equal to the composite
\* key of its group, _count equal to the number of input records of the
\* group, for each grouping field (that is not itself aggregated) the string
\* form of the value the field has in the members of the group, null when
\* that value is null or missing, and after them the aggregated fields;
\* grouping [{cat:"a",v:"10"},{cat:"a",v:"20"},{cat:"b",v:"5"}] by cat with
\* {v:"sum"} gives {_group:"a",_count:2,cat:"a",v:30} and
\* {_group:"b",_count:1,cat:"b",v:5}.
C11_Rows ==
  aPc = "returned" =>
    /\ \A i \in 1..Len(result) :
         \E key \in { GroupKey(gData[d], gFields) : d \in 1..Len(gData) } :
           /\ Get(result[i], k_group) = Str(key)
           /\ RowDescribes(result[i], key)
    /\ GroupingScenario => result = GroupingScenarioRows

\* the rows are as C11 says when no grouping field of a record holds the text
\* of the null marker
RowsUnlessMarker ==
  (aPc = "returned" /\ gMarker \notin { gData[d] : d \in 1..Len(gData) }) =>
    /\ \A i \in 1..Len(result) :
         \E key \in { GroupKey(gData[d], gFields) : d \in 1..Len(gData) } :
           /\ Get(result[i], k_group) = Str(key)
           /\ RowDescribes(result[i], key)
    /\ GroupingScenario => result = GroupingScenarioRows

GroupingScenarioReturned == aPc = "returned" /\ GroupingScenario


\* the index of the first input record of the group a row stands for
FirstSeen(row) == MinOf(RecordsOfKey(Get(row, k_group).s))

\* C12: the rows groupAndAggregate returns are in first-seen group order: the
\* row of group A is before the row of group B exactly when the first input
\* record of A is before the first input record of B.
C12_FirstSeenOrder ==
  aPc = "returned" =>
    \A i, j \in 1..Len(result) : i < j <=> FirstSeen(result[i]) < FirstSeen(result[j])

\* the rows are in first-seen order when no composite key is the decimal
\* form of an array index
FirstSeenUnlessIndexKey ==
  (aPc = "returned" /\ \A g \in 1..Len(groups) : ~IsArrayIndex(groups[g].k)) =>
    \A i, j \in 1..Len(result) : i < j <=> FirstSeen(result[i]) < FirstSeen(result[j])


\* the numbers of the non-empty values the aggregated field has in the group
\* of row number i
NumbersOfRow(i, fieldName) ==
  LET vals == FieldValues(Members(groups[i]), fieldName)
  IN  [ j \in 1..Len(vals) |-> ToNumber(vals[j]) ]

\* min and max of row number i are the smallest and the largest number
ExtremesRight(i) ==
  \A a \in 1..Len(aggregations) :
    LET ns == NumbersOfRow(i, aggregations[a].k)
        set == { ns[j].n : j \in 1..Len(ns) }
    IN  (Len(ns) > 0 /\ \A j \in 1..Len(ns) : ns[j].t = "num") =>
          /\ aggregations[a].v = "min" => Get(result[i], aggregations[a].k) = Num(MinOf(set))
          /\ aggregations[a].v = "max" => Get(result[i], aggregations[a].k) = Num(MaxOf(set))

\* C15: for every group in which the aggregated field has at least one
\* non-empty value and all of them are numeric, 0 and negative numbers
\* included, 'min' returns the numerically smallest of the values and 'max'
\* the numerically largest.
C15_MinMax ==
  aPc = "returned" => \A i \in 1..Len(result) : ExtremesRight(i)

\* min and max are right for the groups in which no value is 0
MinMaxUnlessZero ==
  aPc = "returned" =>
    \A i \in 1..Len(result) :
      (\A m \in 1..Len(groups[i].v) : gData[groups[i].v[m]] # gZero) => ExtremesRight(i)

(***************************************************************************)
(* Properties of pivotTable.                                               *)
(***************************************************************************)
\* list is the list of the distinct values of field in the input, sorted
\* lexicographically by string form (a record without the field has the
\* value undefined, which is not compared)
SortedDistinct(list, field) ==
  /\ { list[i] : i \in 1..Len(list) } = { Get(pvData[d], field) : d \in 1..Len(pvData) }
  /\ \A i, j \in 1..Len(list) : i # j => list[i] # list[j]
  /\ \A i, j \in 1..Len(list) :
       (i < j /\ list[i] # Undefined /\ list[j] # Undefined)
         => ~StrLess(ToStr(list[j]), ToStr(list[i]))

\* pivot.data[r][c]
Cell(r, c) == Get(Get(pivot.data, ToStr(r)), ToStr(c))

PivotScenario == pvData = << pXP, pXQ, pYP >> /\ aggFunction = "sum"

\* C13: pivotTable returns rows and columns as the lexicographically sorted
\* lists of the distinct row and column values, data[r][c] is defined for
\* every r of rows and c of columns, and a pair (r, c) that no input record
\* has is 0 under sum, avg and count; for [{r:"x",c:"p",v:"1"},
\* {r:"x",c:"q",v:"2"},{r:"y",c:"p",v:"3"}] and sum, rows = ["x","y"],
\* columns = ["p","q"], data.x.p = 1, data.x.q = 2, data.y.p = 3, data.y.q = 0.
C13_Pivot ==
  pvPc = "returned" =>
    /\ SortedDistinct(pivot.rows, kR)
    /\ SortedDistinct(pivot.columns, kC)
    /\ \A r \in 1..Len(pivot.rows) : \A c \in 1..Len(pivot.columns) :
         /\ HasKey(pivot.data, ToStr(pivot.rows[r]))
         /\ HasKey(Get(pivot.data, ToStr(pivot.rows[r])), ToStr(pivot.columns[c]))
         /\ (/\ aggFunction \in { "sum", "avg", "count" }
             /\ \A d \in 1..Len(pvData) :
                  ~ /\ Get(pvData[d], kR) = pivot.rows[r]
                    /\ Get(pvData[d], kC) = pivot.columns[c])
              => Cell(pivot.rows[r], pivot.columns[c]) = Num(0)
    /\ PivotScenario =>
         /\ pivot.rows = << Str(<< "x" >>), Str(<< "y" >>) >>
         /\ pivot.columns = << Str(<< "p" >>), Str(<< "q" >>) >>
         /\ Cell(Str(<< "x" >>), Str(<< "p" >>)) = Num(1)
         /\ Cell(Str(<< "x" >>), Str(<< "q" >>)) = Num(2)
         /\ Cell(Str(<< "y" >>), Str(<< "p" >>)) = Num(3)
         /\ Cell(Str(<< "y" >>), Str(<< "q" >>)) = Num(0)

\* the same when no row or column value contains the separator '::'
PivotUnlessSeparator ==
  (\A d \in 1..Len(pvData) : pvData[d] \notin { pXYQ, pYYQ }) => C13_Pivot


(***************************************************************************)
(* Properties of calculatePercentile.                                      *)
(***************************************************************************)
ValueSet == { qValues[i] : i \in 1..Len(qValues) }

\* C14: for every non-empty sequence of numbers calculatePercentile(values, 0)
\* is the minimum of the values and calculatePercentile(values, 100) the
\* maximum; calculatePercentile([10,20], 50) is 15; for the empty sequence
\* the result is 0.
C14_PercentileBounds ==
  qPc = "returned" =>
    /\ (Len(qValues) > 0 /\ percentile = 0) => quantile = Num(MinOf(ValueSet))
    /\ (Len(qValues) > 0 /\ percentile = 100) => quantile = Num(MaxOf(ValueSet))
    /\ (qValues = << 10, 20 >> /\ percentile = 50) => quantile = Num(15)
    /\ Len(qValues) = 0 => quantile = Num(0)

C14_Witness ==
  /\ qPc = "returned" /\ percentile = 0
  /\ Len(qValues) = 3 /\ qValues[1] > qValues[2] /\ qValues[2] > qValues[3]
  /\ quantile = Num(qValues[3])


(***************************************************************************)
(* Properties of the validator.                                            *)
(***************************************************************************)
\* the rule checks of row (counted from 0) and field that fail or raise
BadChecks(row, f) ==
  { k \in 1..Len(rules[f].v) :
      RunValidator(rules[f].v[k], FieldOf(dataArray[row + 1], rules[f].k)).outcome # "valid" }

\* the entries for row and field
EntriesOf(row, f) ==
  { e \in 1..Len(errors) : errors[e].row = row /\ errors[e].field = rules[f].k }

\* C20: getErrors never throws, for any array of object records and any rules
\* added, unknown rule names included: every rule check that fails or raises
\* has one entry {row, field, rule, message, value} in the array returned, and
\* the entries are in non-decreasing order of row.
C20_ErrorsAreData ==
  vPc = "returned" =>
    /\ \A row \in 0..(Len(dataArray) - 1) : \A f \in 1..Len(rules) :
         /\ Cardinality(EntriesOf(row, f)) = Cardinality(BadChecks(row, f))
         /\ \A k \in BadChecks(row, f) : \E e \in EntriesOf(row, f) :
              /\ errors[e].rule = rules[f].v[k].name
              /\ errors[e].value = FieldOf(dataArray[row + 1], rules[f].k)
    /\ \A e1, e2 \in 1..Len(errors) : e1 < e2 => errors[e1].row <= errors[e2].row

\* the same when no rule is on the field __proto__
ErrorsUnlessProto ==
  (\A f \in 1..Len(rules) : rules[f].k # sProto) => C20_ErrorsAreData

(***************************************************************************)
(* aggregateGroup: count, sum and avg.                                     *)
(***************************************************************************)
\* the members of the group whose field is not null, undefined or ''
Remaining(group, f) ==
  { i \in 1..Len(group) : Get(group[i], f) \notin { Null, Undefined, Str(<< >>) } }

\* the numeric coercion of a value, a non-numeric value counting as 0
CoercedOrZero(v) == IF ToNumber(v).t = "num" THEN ToNumber(v).n ELSE 0

RECURSIVE CoercedSum(_, _, _)
CoercedSum(group, f, S) ==
  IF S = {} THEN 0
  ELSE LET i == CHOOSE x \in S : TRUE
       IN  CoercedOrZero(Get(group[i], f)) + CoercedSum(group, f, S \ { i })

\* q is the number a / b, b positive
IsQuotient(q, a, b) ==
  CASE q.t = "num" -> q.n * b = a
    [] q.t = "frac" ->
         /\ (Abs(q.n) \div 1000) * b = Abs(a) * (Abs(q.n) % 1000)
         /\ (q.n < 0) = (a < 0)
    [] OTHER -> FALSE

\* C21: aggregateGroup leaves null, undefined and empty-string values of the
\* field out; count is the number of values that remain, sum is the sum of
\* their numeric coercions with a non-numeric value counted as 0, and avg is
\* that sum divided by that count, or 0 when no value remains.
C21_CountSumAvg ==
  aPc = "grouped" =>
    LET f == aggregations[1].k
        type == aggregations[1].v
        rem == Remaining(gData, f)
        got == Get(result[1], f)
    IN  /\ type = "count" => got = Num(Cardinality(rem))
        /\ type = "sum" => got = Num(CoercedSum(gData, f, rem))
        /\ type = "avg" =>
             IF rem = {} THEN got = Num(0)
             ELSE IsQuotient(got, CoercedSum(gData, f, rem), Cardinality(rem))

\* an average over a group with an empty-string value and a non-numeric one
C21_Witness ==
  /\ aPc = "grouped"
  /\ gData = << gA10, gEmptyV, gTextV >>
  /\ aggregations = << Prop(kV, "avg") >>
  /\ Get(result[1], kV) = Num(5)

(***************************************************************************)
(* Deduplication together with the later stages.                           *)
(***************************************************************************)
\* no two records of T have the same dedup key
DistinctKeys(T, o) ==
  \A i, j \in 1..Len(T) : i # j => DedupKey(T[i], o) # DedupKey(T[j], o)

\* C22: whenever the deduplicate option is enabled, the array cleanData
\* returns holds no two records with the same dedup key (the value of the key
\* field, or the JSON serialization when no key field is given), whatever
\* other stages are enabled.
C22_NoDuplicateKeys ==
  (pc = "done" /\ Truthy(options, "deduplicate")) => DistinctKeys(cleaned, options)

\* the same when none of the stages that rewrite records after the
\* deduplicate stage is enabled
NoDuplicateKeysUnlessRewritten ==
  (/\ pc = "done"
   /\ Truthy(options, "deduplicate")
   /\ \A st \in { "trim", "case", "columns", "transform" } : ~Truthy(options, st))
    => DistinctKeys(cleaned, options)

(***************************************************************************)
(* Group keys and the separator.                                           *)
(***************************************************************************)
\* the string form of a grouping-field value, null and missing values
\* standing as the null marker
StringForm(v) == IF IsNullish(v) THEN sNullMarker ELSE ToStr(v)

\* the tuple of string forms of the grouping fields of a record
FormTuple(item) == [ f \in 1..Len(gFields) |-> StringForm(Get(item, gFields[f])) ]

\* C23: all records groupByMultiple places in one group have the same tuple
\* of stringified grouping-field values (null and missing normalized to the
\* null marker), also for values that contain the separator '|'.
C23_SameTuple ==
  \A g \in 1..Len(groups) : \A m1, m2 \in 1..Len(groups[g].v) :
    FormTuple(gData[groups[g].v[m1]]) = FormTuple(gData[groups[g].v[m2]])

\* the same when no string form of a grouping field contains '|'
SameTupleUnlessSeparator ==
  (\A d \in 1..Len(gData) : \A f \in 1..Len(gFields) :
     \A c \in 1..Len(FormTuple(gData[d])[f]) : FormTuple(gData[d])[f][c] # "|")
    => C23_SameTuple

(***************************************************************************)
(* The cells of pivotTable and the separator.                              *)
(***************************************************************************)
\* the input records whose row-field value is r and column-field value is c
CellMembers(r, c) ==
  { d \in 1..Len(pvData) : Get(pvData[d], kR) = r /\ Get(pvData[d], kC) = c }

\* the numeric-coerced values of the value field of the records S
CoercedValues(S) == { CoercedOrZero(Get(pvData[d], kV)) : d \in S }

\* got is the aggregation by aggFunction of the value field of the records S
\* (min and max of no record are left open)
AggregationOf(got, S) ==
  LET sum == CoercedSum(pvData, kV, S)
  IN  /\ aggFunction = "sum" => got = Num(sum)
      /\ aggFunction = "count" => got = Num(Cardinality(S))
      /\ aggFunction = "avg" =>
           IF S = {} THEN got = Num(0) ELSE IsQuotient(got, sum, Cardinality(S))
      /\ (aggFunction = "min" /\ S # {}) => got = Num(MinOf(CoercedValues(S)))
      /\ (aggFunction = "max" /\ S # {}) => got = Num(MaxOf(CoercedValues(S)))

\* C24: in the result of pivotTable, data[r][c] is the aggregation of the
\* numeric-coerced value-field values of exactly the input records whose
\* row-field value is r and whose column-field value is c, also for row and
\* column values that contain '::'.
C24_CellMembers ==
  pvPc = "returned" =>
    \A r \in 1..Len(pivot.rows) : \A c \in 1..Len(pivot.columns) :
      AggregationOf(Cell(pivot.rows[r], pivot.columns[c]),
                    CellMembers(pivot.rows[r], pivot.columns[c]))

\* the same when no row or column value contains '::'
CellMembersUnlessSeparator ==
  (\A d \in 1..Len(pvData) : pvData[d] \notin { pXYQ, pYYQ }) => C24_CellMembers

(***************************************************************************)
(* The filter expression of the clean command.                             *)
(***************************************************************************)
\* the places of ':' in a text
Colons(expr) == { i \in 1..Len(expr) : expr[i] = ":" }

\* the predicate an expression stands for: the column is the text before the
\* first ':', the operator the text between the first and the second ':',
\* and the value the rest (empty when there is no second ':')
IntendedFilter(expr) ==
  LET first == MinOf(Colons(expr))
      later == { i \in Colons(expr) : i > first }
      second == IF later = {} THEN Len(expr) + 1 ELSE MinOf(later)
  IN  Filter(SubSeq(expr, 1, first - 1),
             OperatorCase(SubSeq(expr, first + 1, second - 1)),
             Str(SubSeq(expr, second + 1, Len(expr))))

\* C25: whenever a filter expression is given to the clean command, every
\* record of the written output satisfies the predicate (column, operator,
\* value) read from the expression, also when the value contains ':' or the
\* expression has fewer than three parts.
C25_OutputSatisfiesFilter ==
  (cPc = "written" /\ argv.filter # << >>) =>
    \A i \in 1..Len(written[1]) :
      FilterKeeps(written[1][i], IntendedFilter(argv.filter[1]))

\* the same for the expressions with exactly three parts
FilteredWhenThreeParts ==
  (argv.filter # << >> /\ Cardinality(Colons(argv.filter[1])) = 2)
    => C25_OutputSatisfiesFilter

=============================================================================
